---- MODULE Spec2Model ----
(***************************************************************************)
(* Pi5Vision: the real-time face tracking pipeline.                        *)
(*                                                                         *)
(*   Spec         FaceProcessor.process_detections (tracker, alert gate)   *)
(*                driven by a clock, over a gallery loaded at construction *)
(*   SpecGallery  enrollment (add_new_face -> add_face -> add_person) and  *)
(*                recognize_face, each call run to completion              *)
(*   SpecGalleryRace  add_face on one thread, recognize_face on another,   *)
(*                interleaved statement by statement                       *)
(*   SpecQueue    the drop-oldest push onto a bounded queue.Queue, its     *)
(*                full() / get_nowait() / put_nowait() calls interleaved   *)
(*                with a second pusher and with the consumer               *)
(*   SpecLifecycle  start(), stop() and the worker loops of CameraStream,  *)
(*                HailoFaceProcessor, FaceTrackingSystem and CoreEngine,   *)
(*                under weak fairness of every thread                      *)
(*   SpecFaults   process_detections with a failure injected at one        *)
(*                detection (embedding, image write, alert store, handler) *)
(*   SpecRealert  one unmatched face seen every few seconds                *)
(*   SpecStartup  ModelManager.load_models, CoreEngine.initialize and      *)
(*                FaceTrackingSystem.setup, followed by start()            *)
(*   SpecIou, SpecNms, SpecDetect  EnhancedFaceDetector: _calculate_iou    *)
(*                and _non_max_suppression on every input of a bounded     *)
(*                set, and detect_faces                                    *)
(*   SpecPipeline the frames' way through camera.frame_queue,              *)
(*                hailo.frame_queue and hailo.result_queue                 *)
(*                                                                         *)
(* Time is counted in whole seconds; an embedding is a small integer       *)
(* vector, and cosine similarities are compared exactly (as rationals).    *)
(***************************************************************************)
EXTENDS Integers, Sequences, FiniteSets, TLC

VARIABLES
    \* FaceDatabase
    db_persons,         \* rows of persons: row i is <<i, name>> (AUTOINCREMENT id)
    db_face_embeddings, \* rows of face_embeddings: <<person_id, embedding>>
    \* FaceRecognizer
    known_embeddings,   \* list of embeddings
    known_identities,   \* list of <<person_id, name>>, parallel to known_embeddings
    query,              \* the embedding last handed to recognize_face
    recognition,        \* what that call returned
    add_outcome,        \* how the last add_new_face call ended, with its arguments
    lookups,            \* history: the number of recognize_face calls so far
    \* the enrolling thread and the recognizing thread (SpecGalleryRace)
    pc_enroll,          \* where add_face stands
    enroll_args,        \* its person_id, name and embedding
    pc_reader,          \* where recognize_face stands
    best_idx,           \* its local best_idx
    \* a bounded queue.Queue and the threads pushing onto it (SpecQueue)
    is_running,         \* the owning component's flag
    frame_queue,        \* the queued items, oldest first
    pc_push,            \* per pusher: where its push stands
    push_item,          \* per pusher: the item it is pushing
    next_frame,         \* the sequence number of the next frame captured
    got,                \* what the consumer's last get returned
    \* FaceProcessor
    now,                \* the clock: time.time() read by the last call
    tracked_faces,      \* the dict face_id -> (id, last_seen), in insertion order
    next_unknown_id,
    alerts,             \* rows of the alerts table, each tagged with the unknown id it was raised for
    results,            \* what the last process_detections call returned
    issued,             \* history: the unknown ids allocated so far, in allocation order
    calls,              \* history: the number of process_detections calls so far
    last_call,          \* history: how the last process_detections call ended
    \* the threads of a running system (SpecLifecycle)
    app,                \* which program runs: face_tracking.main or a CoreEngine client
    main_pc,            \* where the main thread stands
    running,            \* per component: its is_running flag
    camera,             \* CameraStream.camera: "None" or "open"
    worker,             \* per worker thread: where its loop stands
    queue_len,          \* per queue.Queue: the number of items it holds
    captured,           \* history: the number of frames produced so far
    starts,             \* history: the number of CoreEngine.start() calls that spawned a thread
    in_flight_at_stop,  \* history: the workers that held an item when stop() cleared their flag
    \* startup (SpecStartup)
    is_initialized,     \* CoreEngine.is_initialized
    models,             \* ModelManager.models: the names of the models loaded
    setup,              \* how FaceTrackingSystem.setup went, and what it found
    initialize_returned,\* history: what the last CoreEngine.initialize returned, and
                        \* the required models that call could not load
    \* the detector (SpecDetector)
    use_ensemble,       \* EnhancedFaceDetector.use_ensemble
    iou_call,           \* the last _calculate_iou call: its boxes and what it returned
    nms_call,           \* the last _non_max_suppression call: its input and its output
    detected,           \* what the last detect_faces returned
    handed,             \* the detections FaceTrackingSystem last handed to process_detections
    \* frames on their way through the queues (SpecPipeline)
    pipeline            \* the queues' contents, the three threads' places and the frames
                        \* they hold, the capture count, and the frames handled so far

vars == <<db_persons, db_face_embeddings, known_embeddings, known_identities,
          query, recognition, add_outcome, lookups,
          pc_enroll, enroll_args, pc_reader, best_idx,
          is_running, frame_queue, pc_push, push_item, next_frame, got,
          now, tracked_faces, next_unknown_id, alerts, results, issued, calls,
          last_call,
          app, main_pc, running, camera, worker, queue_len, captured, starts,
          in_flight_at_stop, is_initialized, models, setup, initialize_returned,
          use_ensemble, iou_call, nms_call, detected, handed, pipeline>>

dbVars == <<db_persons, db_face_embeddings>>
galleryVars == <<known_embeddings, known_identities>>
callerVars == <<query, recognition, add_outcome, lookups>>
startupVars == <<is_initialized, models, setup, initialize_returned>>
lifeCore == <<app, main_pc, running, camera, worker, queue_len, captured, starts,
              in_flight_at_stop>>
detectorVars == <<use_ensemble, iou_call, nms_call, detected, handed>>
lifeVars == <<lifeCore, startupVars, detectorVars, pipeline>>
raceVars == <<pc_enroll, enroll_args, pc_reader, best_idx>>
queueVars == <<is_running, frame_queue, pc_push, push_item, next_frame, got>>
trackerVars == <<now, tracked_faces, next_unknown_id, alerts, results, issued, calls,
                 last_call>>

----------------------------------------------------------------------------
(* Bounds *)

MaxCalls == 3           \* process_detections calls in one run
MaxDetections == 3      \* detections in one frame
MaxStarts == 2          \* CoreEngine.start() calls that spawn a thread
MaxCaptures == 1        \* frames produced in a run of SpecLifecycle
MaxLookups == 2         \* recognize_face calls in a run of SpecGallery
MaxPersons == 2         \* rows of the persons table
MaxTrackedCalls == 9     \* process_detections calls in one run of SpecRealert
MaxPipelineFrames == 12  \* frames captured in one run of SpecPipeline
MaxCoord == 2            \* largest x and y of a box
MaxSide == 2             \* largest width and height of a box
MaxNms == 3              \* detections handed to _non_max_suppression
MaxFrames == 7          \* frames captured in one run

(* Program constants *)

SimilarityThresholdNum == 3     \* similarity_threshold = 0.6 = 3/5
SimilarityThresholdDen == 5
UnknownLookback == 5            \* seconds
AlertCooldown == 30             \* seconds
InactivityTimeout == 60         \* seconds
FrameQueueMaxsize == 5          \* queue.Queue(maxsize=5)

None == [none |-> TRUE]     \* Python's None, where a record may stand

----------------------------------------------------------------------------
(* Embeddings and similarity *)

Embeddings == {<<1, 0>>, <<0, 1>>, <<3, 4>>, <<1, 2>>, <<1, 1>>}

Dot(a, b) == a[1] * b[1] + a[2] * b[2]
NormSq(a) == Dot(a, a)

\* cos(q, a) < cos(q, b), the cosines being Dot/sqrt(NormSq*NormSq)
CosLess(q, a, b) ==
    LET da == Dot(q, a)
        db == Dot(q, b)
    IN  IF da < 0
        THEN IF db >= 0 THEN TRUE
             ELSE da * da * NormSq(b) > db * db * NormSq(a)
        ELSE IF db < 0 THEN FALSE
             ELSE da * da * NormSq(b) < db * db * NormSq(a)

\* cos(q, g) >= num/den, for num, den > 0
CosAtLeast(q, g, num, den) ==
    /\ Dot(q, g) >= 0
    /\ den * den * Dot(q, g) * Dot(q, g) >= num * num * NormSq(q) * NormSq(g)

AboveThresholdStrict(q, g) ==
    /\ Dot(q, g) >= 0
    /\ SimilarityThresholdDen * SimilarityThresholdDen * Dot(q, g) * Dot(q, g)
          > SimilarityThresholdNum * SimilarityThresholdNum * NormSq(q) * NormSq(g)

\* best_similarity >= self.similarity_threshold
AboveThreshold(q, g) ==
    CosAtLeast(q, g, SimilarityThresholdNum, SimilarityThresholdDen)

\* np.argmax: the first index holding the maximum
RECURSIVE ArgMaxFrom(_, _, _, _)
ArgMaxFrom(q, embs, i, best) ==
    IF i > Len(embs) THEN best
    ELSE ArgMaxFrom(q, embs, i + 1,
                    IF CosLess(q, embs[best], embs[i]) THEN i ELSE best)

ArgMax(q, embs) == ArgMaxFrom(q, embs, 2, 1)

\* _calculate_similarity, kept exact: the pair <<d, n>> stands for d / sqrt(n)
Similarity(a, b) == <<Dot(a, b), NormSq(a) * NormSq(b)>>

\* FaceRecognizer.recognize_face over the two lists it reads
RecognizeFace(embs, idents, q) ==
    IF Len(embs) = 0 THEN None
    ELSE LET idx == ArgMax(q, embs)
         IN  IF AboveThreshold(q, embs[idx])
             THEN [person_id  |-> idents[idx][1],
                   name       |-> idents[idx][2],
                   similarity |-> Similarity(q, embs[idx])]
             ELSE None

----------------------------------------------------------------------------
(* FaceProcessor.process_detections *)

PersonKey(person_id) == <<"person", person_id>>
UnknownKey(unknown_id) == <<"unknown", unknown_id>>

\* face_id.startswith('unknown_')
IsUnknownKey(face_id) == face_id[1] = "unknown"

\* a store that keeps the time left on a countdown instead of the time seen
DictSetCountdown(d, key, id, t) ==
    IF \E i \in 1..Len(d) : d[i].face_id = key
    THEN [i \in 1..Len(d) |->
            IF d[i].face_id = key
            THEN [face_id |-> key, id |-> id, last_seen |-> InactivityTimeout - t]
            ELSE d[i]]
    ELSE Append(d, [face_id |-> key, id |-> id, last_seen |-> InactivityTimeout - t])

\* a store that adds an entry whether or not the key is there
DictSetAppend(d, key, id, t) ==
    Append(d, [face_id |-> key, id |-> id, last_seen |-> t])

\* d[key] = (id, t): an existing key keeps its place, a new one goes last
DictSet(d, key, id, t) ==
    IF \E i \in 1..Len(d) : d[i].face_id = key
    THEN [i \in 1..Len(d) |->
            IF d[i].face_id = key
            THEN [face_id |-> key, id |-> id, last_seen |-> t]
            ELSE d[i]]
    ELSE Append(d, [face_id |-> key, id |-> id, last_seen |-> t])

IsRecentUnknownInclusive(current_time, last_seen) ==
    current_time - last_seen <= UnknownLookback

\* current_time - last_seen < 5.0
IsRecentUnknown(current_time, last_seen) ==
    current_time - last_seen < UnknownLookback

ShouldRealertFlipped(current_time, last_seen) ==
    current_time - last_seen < AlertCooldown

\* current_time - last_seen > 30.0
ShouldRealert(current_time, last_seen) ==
    current_time - last_seen > AlertCooldown

IsStaleInclusive(current_time, last_seen) ==
    current_time - last_seen >= InactivityTimeout

\* current_time - self.tracked_faces[face_id][1] > 60.0
IsStale(current_time, last_seen) ==
    current_time - last_seen > InactivityTimeout

NextUnknownIdNotAdvanced(unknown_id) == unknown_id

\* self.next_unknown_id += 1
NextUnknownIdAfter(unknown_id) == unknown_id + 1

\* the first tracked unknown face seen within the lookback window (0: none)
RECURSIVE FirstRecentUnknown(_, _, _)
FirstRecentUnknown(d, current_time, i) ==
    IF i > Len(d) THEN 0
    ELSE IF /\ IsUnknownKey(d[i].face_id)
            /\ IsRecentUnknown(current_time, d[i].last_seen)
         THEN i
         ELSE FirstRecentUnknown(d, current_time, i + 1)

UnknownAlert(unknown_id, current_time) ==
    [alert_type |-> "unknown_face", person_id |-> 0,
     unknown_id |-> unknown_id, time |-> current_time]

\* an alert that never reaches the alerts table
TriggerAlertDropped(rows, alert) == rows

\* AlertSystem.trigger_alert -> FaceDatabase.add_alert: one more row of alerts
TriggerAlert(rows, alert) == Append(rows, alert)

\* one pass of the loop body, for the detection whose embedding is emb
ProcessOne(st, emb, current_time, embs, idents) ==
    LET recognized == RecognizeFace(embs, idents, emb)
    IN  IF recognized # None
        THEN [st EXCEPT
                !.tf = DictSet(st.tf, PersonKey(recognized.person_id),
                               recognized.person_id, current_time),
                !.results = Append(st.results,
                    [recognized |-> TRUE,
                     face_id    |-> PersonKey(recognized.person_id),
                     id         |-> recognized.person_id,
                     name       |-> recognized.name])]
        ELSE LET m == FirstRecentUnknown(st.tf, current_time, 1)
             IN  IF m # 0
                 THEN LET unknown_id == st.tf[m].id
                          last_seen  == st.tf[m].last_seen
                      IN  [st EXCEPT
                             !.tf = DictSet(st.tf, st.tf[m].face_id, unknown_id, current_time),
                             !.results = Append(st.results,
                                 [recognized |-> FALSE,
                                  face_id    |-> st.tf[m].face_id,
                                  id         |-> unknown_id,
                                  name       |-> <<"Unknown", unknown_id>>]),
                             !.alerts = IF ShouldRealert(current_time, last_seen)
                                        THEN TriggerAlert(st.alerts,
                                                          UnknownAlert(unknown_id, current_time))
                                        ELSE st.alerts]
                 ELSE LET unknown_id == st.nid
                      IN  [st EXCEPT
                             !.nid = NextUnknownIdAfter(st.nid),
                             !.tf = DictSet(st.tf, UnknownKey(unknown_id), unknown_id, current_time),
                             !.results = Append(st.results,
                                 [recognized |-> FALSE,
                                  face_id    |-> UnknownKey(unknown_id),
                                  id         |-> unknown_id,
                                  name       |-> <<"Unknown", unknown_id>>]),
                             !.alerts = TriggerAlert(st.alerts,
                                                     UnknownAlert(unknown_id, current_time)),
                             !.issued = Append(st.issued, unknown_id)]

RECURSIVE ProcessAll(_, _, _, _, _, _)
ProcessAll(st, dets, i, current_time, embs, idents) ==
    IF i > Len(dets) THEN st
    ELSE ProcessAll(ProcessOne(st, dets[i], current_time, embs, idents),
                    dets, i + 1, current_time, embs, idents)

\* "Clean up old tracked faces"
Sweep(d, current_time) ==
    SelectSeq(d, LAMBDA e : ~IsStale(current_time, e.last_seen))

\* what the detector and embedder may hand over for one frame: a face that
\* matches a gallery entry, and one below the threshold for every entry
DetectionEmbeddings == {<<3, 4>>, <<1, -2>>}

DetectionLists == UNION {[1..n -> DetectionEmbeddings] : n \in 0..MaxDetections}

\* process_detections(frame, detections, ...) at clock reading current_time
process_detections(dets, current_time) ==
    LET st0 == [tf |-> tracked_faces, nid |-> next_unknown_id,
                alerts |-> alerts, results |-> <<>>, issued |-> issued]
    IN  \E st \in {ProcessAll(st0, dets, 1, current_time,
                               known_embeddings, known_identities)} :
          /\ now' = current_time
          /\ tracked_faces' = Sweep(st.tf, current_time)
          /\ next_unknown_id' = st.nid
          /\ alerts' = st.alerts
          /\ results' = st.results
          /\ issued' = st.issued
          /\ calls' = calls + 1
          /\ last_call' = [outcome |-> "returned", detections |-> Len(dets), fault |-> "none"]
          /\ UNCHANGED <<dbVars, galleryVars, callerVars, raceVars, lifeVars, queueVars>>

\* the clock readings of successive calls: time passes between calls
Delays == {4, 5, 60, 61}

ProcessDetections ==
    /\ calls < MaxCalls
    /\ \E d \in Delays, dets \in DetectionLists :
          process_detections(dets, now + d)

\* what can go wrong while one detection is handled: generate_embedding_func
\* raises; cv2.imwrite(face_path, face_img) raises on an empty crop; inside
\* trigger_alert, database.add_alert raises, or a registered handler raises
Faults == {"embedding", "face_image", "alert_store", "alert_handler"}

\* one pass of the loop body during which the fault occurs, if the pass comes
\* to the statement concerned; raised marks the exception leaving the loop
ProcessOneRaising(st, emb, current_time, embs, idents, fault) ==
    LET after == ProcessOne(st, emb, current_time, embs, idents)
    IN  IF fault = "embedding"
        THEN [st EXCEPT !.raised = TRUE]
        ELSE IF fault = "face_image" /\ after.nid # st.nid
        THEN [after EXCEPT !.alerts = st.alerts, !.raised = TRUE]
        ELSE IF fault = "alert_store" /\ after.alerts # st.alerts
        THEN [after EXCEPT !.alerts = st.alerts, !.raised = TRUE]
        ELSE IF fault = "alert_handler" /\ after.alerts # st.alerts
        THEN [after EXCEPT !.raised = TRUE]
        ELSE after

\* the loop over the detections, the fault striking detection fail_at; nothing
\* in process_detections catches the exception
RECURSIVE ProcessAllRaising(_, _, _, _, _, _, _, _)
ProcessAllRaising(st, dets, i, current_time, embs, idents, fail_at, fault) ==
    IF i > Len(dets) \/ st.raised THEN st
    ELSE ProcessAllRaising(
            IF i = fail_at
            THEN ProcessOneRaising(st, dets[i], current_time, embs, idents, fault)
            ELSE ProcessOne(st, dets[i], current_time, embs, idents),
            dets, i + 1, current_time, embs, idents, fail_at, fault)

\* process_detections during which a fault strikes detection fail_at: when the
\* exception is raised the sweep is not reached and nothing is returned
process_detections_raising(dets, current_time, fail_at, fault) ==
    LET st0 == [tf |-> tracked_faces, nid |-> next_unknown_id,
                alerts |-> alerts, results |-> <<>>, issued |-> issued,
                raised |-> FALSE]
    IN  \E st \in {ProcessAllRaising(st0, dets, 1, current_time,
                                      known_embeddings, known_identities,
                                      fail_at, fault)} :
          /\ now' = current_time
          /\ tracked_faces' = IF st.raised THEN st.tf ELSE Sweep(st.tf, current_time)
          /\ next_unknown_id' = st.nid
          /\ alerts' = st.alerts
          /\ results' = IF st.raised THEN <<>> ELSE st.results
          /\ issued' = st.issued
          /\ calls' = calls + 1
          /\ last_call' = [outcome    |-> IF st.raised THEN "raised" ELSE "returned",
                           detections |-> Len(dets),
                           fault      |-> IF st.raised THEN fault ELSE "none"]
          /\ UNCHANGED <<dbVars, galleryVars, callerVars, raceVars, lifeVars, queueVars>>

ProcessDetectionsRaising ==
    /\ calls < MaxCalls
    /\ \E d \in Delays, dets \in DetectionLists :
          \E fail_at \in 1..Len(dets), fault \in Faults :
              process_detections_raising(dets, now + d, fail_at, fault)

----------------------------------------------------------------------------
(* FaceDatabase and the gallery cache *)

\* get_all_embeddings: face_embeddings JOIN persons, as (person_id, name, embedding)
get_all_embeddings(persons, face_embeddings) ==
    [i \in 1..Len(face_embeddings) |->
        <<face_embeddings[i][1],
          persons[face_embeddings[i][1]][2],
          face_embeddings[i][2]>>]

\* _load_known_embeddings: the two parallel lists
LoadKnownEmbeddings(persons, face_embeddings) ==
    LET embeddings_data == get_all_embeddings(persons, face_embeddings)
    IN  [embs   |-> [i \in 1..Len(embeddings_data) |-> embeddings_data[i][3]],
         idents |-> [i \in 1..Len(embeddings_data) |->
                        <<embeddings_data[i][1], embeddings_data[i][2]>>]]

\* a database holding two enrolled people
SeedPersons == <<<<1, "alice">>, <<2, "bob">>>>
SeedFaceEmbeddings == <<<<1, <<1, 0>>>>, <<2, <<0, 1>>>>>>

NoCall == [status |-> "none"]
NoQuery == <<0, 0>>

Producers == {"p1", "p2"}

\* ModelManager.load_models: model_configs, in order
ModelConfigs ==
    << [name |-> "face_detection_primary",   required |-> TRUE],
       [name |-> "face_detection_secondary", required |-> FALSE],
       [name |-> "face_recognition",         required |-> TRUE],
       [name |-> "age_gender",               required |-> FALSE],
       [name |-> "emotion",                  required |-> FALSE],
       [name |-> "mask_detection",           required |-> FALSE],
       [name |-> "anti_spoofing",            required |-> FALSE] >>

ModelNames == {ModelConfigs[i].name : i \in 1..Len(ModelConfigs)}

RequiredModels == {"face_detection_primary", "face_recognition"}

\* the objects that carry an is_running flag
Components == {"camera", "hailo", "fts", "engine"}

\* the threads running a loop, as <<loop, instance>>: CameraStream._process_frames,
\* HailoFaceProcessor._process_frames, FaceTrackingSystem._process_frames and
\* _display_results, and one CoreEngine._process_frames per start()
Workers == ({"capture", "hailo", "tracking", "display"} \X {1})
              \cup ({"engine"} \X (1..MaxStarts))

\* the component whose flag the loop of worker w tests
ComponentOf(w) ==
    CASE w[1] = "capture"  -> "camera"
      [] w[1] = "hailo"    -> "hailo"
      [] w[1] = "tracking" -> "fts"
      [] w[1] = "display"  -> "fts"
      [] w[1] = "engine"   -> "engine"

Queues == {"camera.frame_queue", "hailo.frame_queue", "hailo.result_queue",
           "fts.result_queue", "engine.frame_queue", "engine.result_queue"}

\* FaceTrackingSystem.setup not called yet
NoSetup == [result |-> "none", use_gstreamer |-> FALSE,
            model_exists |-> FALSE, device_ok |-> FALSE]

\* CoreEngine.initialize not called yet
NotInitialized == [value |-> "none", missing |-> {}]

\* the queues a frame passes on its way to process_detections, and the threads
\* that move it: CameraStream._process_frames, FaceTrackingSystem._process_frames
\* and HailoFaceProcessor._process_frames
PipelineQueues == {"camera.frame_queue", "hailo.frame_queue", "hailo.result_queue"}
PipelineThreads == {"capture", "tracking", "hailo"}

\* empty queues, every thread at the top of its loop, nothing captured
PipelineIdle ==
    [queue   |-> [q \in PipelineQueues |-> <<>>],
     pc      |-> [t \in PipelineThreads |->
                    CASE t = "capture" -> "read"
                      [] t = "tracking" -> "get_frame"
                      [] t = "hailo" -> "get"],
     hold    |-> [t \in PipelineThreads |-> 0],
     seq     |-> 1,
     handled |-> <<>>]

\* an EnhancedFaceDetector with the default configuration, not called yet
DetectorIdle ==
    /\ use_ensemble = TRUE
    /\ iou_call = [box1 |-> <<0, 0, 0, 0>>, box2 |-> <<0, 0, 0, 0>>,
                   iou |-> <<0, 1>>, returned |-> FALSE]
    /\ nms_call = [detections |-> <<>>, kept |-> <<>>, returned |-> FALSE]
    /\ detected = <<>>
    /\ handed = <<>>

\* nothing constructed has been started
LifeIdle ==
    /\ app = "none"
    /\ main_pc = "init"
    /\ running = [c \in Components |-> FALSE]
    /\ camera = "None"
    /\ worker = [w \in Workers |-> "none"]
    /\ queue_len = [q \in Queues |-> 0]
    /\ captured = 0
    /\ starts = 0
    /\ in_flight_at_stop = {}
    /\ is_initialized = FALSE
    /\ models = {}
    /\ setup = NoSetup
    /\ initialize_returned = NotInitialized
    /\ DetectorIdle
    /\ pipeline = PipelineIdle

\* no call made yet, no thread inside a call
CallersIdle ==
    /\ query = NoQuery
    /\ recognition = None
    /\ add_outcome = NoCall
    /\ lookups = 0
    /\ pc_enroll = "idle"
    /\ enroll_args = None
    /\ pc_reader = "idle"
    /\ best_idx = 0

\* FaceProcessor.__init__
TrackerFresh ==
    /\ now = 0
    /\ tracked_faces = <<>>
    /\ next_unknown_id = 1
    /\ alerts = <<>>
    /\ results = <<>>
    /\ issued = <<>>
    /\ calls = 0
    /\ last_call = [outcome |-> "none", detections |-> 0, fault |-> "none"]

\* HailoFaceProcessor.__init__ / CoreEngine.__init__: an empty queue, not running
QueueFresh ==
    /\ is_running = FALSE
    /\ frame_queue = <<>>
    /\ pc_push = [p \in Producers |-> "idle"]
    /\ push_item = [p \in Producers |-> 0]
    /\ next_frame = 1
    /\ got = 0

Init ==
    /\ db_persons = SeedPersons
    /\ db_face_embeddings = SeedFaceEmbeddings
    /\ known_embeddings = LoadKnownEmbeddings(SeedPersons, SeedFaceEmbeddings).embs
    /\ known_identities = LoadKnownEmbeddings(SeedPersons, SeedFaceEmbeddings).idents
    /\ CallersIdle
    /\ TrackerFresh
    /\ QueueFresh
    /\ LifeIdle

Next == ProcessDetections

Spec == Init /\ [][Next]_vars

\* the same calls, and calls during which one detection meets a fault
\* one face that matches nobody stays in view, or leaves and comes back: a
\* frame with that one detection every 4 s, or after a gap of 31 s
RealertDelays == {4, 31}

ProcessUnknownDetection ==
    /\ calls < MaxTrackedCalls
    /\ \E d \in RealertDelays :
          process_detections(<<(<<1, -2>>)>>, now + d)

SpecRealert == Init /\ [][ProcessUnknownDetection]_vars

NextFaults == ProcessDetections \/ ProcessDetectionsRaising

SpecFaults == Init /\ [][NextFaults]_vars

\* C11: a failure that affects one detection (its crop is empty, its embedding
\* cannot be computed, its face image cannot be written) drops that detection
\* only: the call returns the results of the other detections of the frame,
\* and its sweep has removed every stale track.
C11_FailureDropsOnlyThatDetection ==
    [][(calls' # calls /\ last_call'.fault \in {"embedding", "face_image"}) =>
         /\ last_call'.outcome = "returned"
         /\ Len(results') = last_call'.detections - 1
         /\ \A i \in 1..Len(tracked_faces') :
               ~IsStale(now', tracked_faces'[i].last_seen)
      ]_vars

\* C19: an alert that cannot be delivered (the alert store insert or a
\* registered handler fails) is dropped, and the pipeline goes on: the call
\* returns, with a result for every detection of the frame.
C19_SinkFailureOnlyDropsAlert ==
    [][(calls' # calls /\ last_call'.fault \in {"alert_store", "alert_handler"}) =>
         /\ last_call'.outcome = "returned"
         /\ Len(results') = last_call'.detections
      ]_vars

----------------------------------------------------------------------------
(* Properties of the tracker, checked under Spec *)

TrackedKeys(d) == {d[i].face_id : i \in 1..Len(d)}
LastSeenOf(d, key) == d[CHOOSE i \in 1..Len(d) : d[i].face_id = key].last_seen
UnknownResults(rs) == {i \in 1..Len(rs) : ~rs[i].recognized}

KnownResults(rs) == {i \in 1..Len(rs) : rs[i].recognized}

\* the tracks of d bound to person person_id
BoundTo(d, person_id) ==
    {i \in 1..Len(d) : ~IsUnknownKey(d[i].face_id) /\ d[i].id = person_id}

AlertsFor(rows, first, unknown_id, t) ==
    {a \in first..Len(rows) : /\ rows[a].alert_type = "unknown_face"
                              /\ rows[a].unknown_id = unknown_id
                              /\ rows[a].time = t}

C17_LastSeenNeverDecreases ==
    [][now' >= now =>
         \A key \in TrackedKeys(tracked_faces) \cap TrackedKeys(tracked_faces') :
             LastSeenOf(tracked_faces', key) >= LastSeenOf(tracked_faces, key)
      ]_vars

\* a track older than another one was seen again in the last call, the other
\* one was not
C17_Witness ==
    \E i, j \in 1..Len(tracked_faces) :
        /\ i < j
        /\ tracked_faces[i].last_seen = now
        /\ tracked_faces[j].last_seen < now
        /\ calls >= 2

\* C2: unknown ids are handed out in strictly increasing order and never
\* again: every id allocated is greater than every id allocated before it,
\* also after the tracks holding the earlier ids have expired.
C2_UnknownIdsStrictlyIncreasing ==
    /\ \A i, j \in 1..Len(issued) : i < j => issued[i] < issued[j]
    /\ \A i \in 1..Len(issued) : issued[i] < next_unknown_id

\* an unknown track has expired and a later unknown track holds a fresh id
C2_Witness ==
    /\ Len(issued) >= 2
    /\ UnknownKey(issued[1]) \notin TrackedKeys(tracked_faces)
    /\ UnknownKey(issued[2]) \in TrackedKeys(tracked_faces)

\* C3: any two 'unknown_face' alerts raised for the same unknown id are at
\* least the 30 s cooldown apart.
C3_NoTwoAlertsWithinCooldown ==
    \A i, j \in 1..Len(alerts) :
        (i < j /\ alerts[i].unknown_id = alerts[j].unknown_id)
            => alerts[j].time - alerts[i].time >= AlertCooldown

\* an unknown track was alerted on and then continued, inside the cooldown,
\* without a second alert
C3_Witness ==
    \E i \in 1..Len(alerts) :
        /\ UnknownKey(alerts[i].unknown_id) \in TrackedKeys(tracked_faces)
        /\ LastSeenOf(tracked_faces, UnknownKey(alerts[i].unknown_id)) > alerts[i].time
        /\ now - alerts[i].time < AlertCooldown
        /\ \E r \in UnknownResults(results) : results[r].id = alerts[i].unknown_id

\* C4: three detections of one frame, no two of them matching the same known
\* person, are resolved to three distinct tracks.
C4_ThreeDetectionsThreeTracks ==
    (/\ Len(results) = 3
     /\ \A i, j \in 1..3 :
          (i < j /\ results[i].recognized /\ results[j].recognized)
              => results[i].id # results[j].id)
        => \A i, j \in 1..3 : i < j => results[i].face_id # results[j].face_id

\* C5: an unmatched detection processed less than 5 s after an unmatched
\* detection continues that detection's Unknown track (same id, no id
\* allocated, last_seen advanced to the new reading); an unmatched detection
\* arriving when no Unknown track was seen within the last 5 s gets the next
\* unknown id and a new track.
C5_ContinueWithinLookback ==
    [][(calls' = calls + 1 /\ UnknownResults(results') # {}) =>
         /\ (UnknownResults(results) # {} /\ now' - now < UnknownLookback) =>
               /\ next_unknown_id' = next_unknown_id
               /\ \A r \in UnknownResults(results), r2 \in UnknownResults(results') :
                     /\ results'[r2].id = results[r].id
                     /\ results'[r2].face_id \in TrackedKeys(tracked_faces')
                     /\ LastSeenOf(tracked_faces', results'[r2].face_id) = now'
         /\ (\A i \in 1..Len(tracked_faces) :
                IsUnknownKey(tracked_faces[i].face_id)
                    => now' - tracked_faces[i].last_seen >= UnknownLookback) =>
               /\ next_unknown_id' = next_unknown_id + 1
               /\ UnknownKey(next_unknown_id) \notin TrackedKeys(tracked_faces)
               /\ UnknownKey(next_unknown_id) \in TrackedKeys(tracked_faces')
               /\ LastSeenOf(tracked_faces', UnknownKey(next_unknown_id)) = now'
               /\ \A r2 \in UnknownResults(results') :
                     results'[r2].id = next_unknown_id
      ]_vars

\* unknown id 1 was created and, less than 5 s later, continued
C5_Witness ==
    /\ issued = <<1>>
    /\ alerts[1].time < now
    /\ now - alerts[1].time < UnknownLookback
    /\ \E r \in UnknownResults(results) : results[r].id = 1
    /\ LastSeenOf(tracked_faces, UnknownKey(1)) = now

\* C6: the sweep ending a call removes every track more than 60 s stale and
\* keeps every other track; after a call no tracked face is more than 60 s
\* stale.
C6_SweepRemovesExactlyStale ==
    [][calls' = calls + 1 =>
         /\ \A i \in 1..Len(tracked_faces') :
               now' - tracked_faces'[i].last_seen <= InactivityTimeout
         /\ \A i \in 1..Len(tracked_faces) :
               now' - tracked_faces[i].last_seen <= InactivityTimeout
                   => tracked_faces[i].face_id \in TrackedKeys(tracked_faces')
      ]_vars

\* the track of unknown id 1, last seen 61 s ago, is gone, while a track
\* last seen exactly 60 s ago would have stayed
C6_Witness ==
    /\ Len(issued) >= 1
    /\ now - alerts[1].time = InactivityTimeout + 1
    /\ UnknownKey(issued[1]) \notin TrackedKeys(tracked_faces)

----------------------------------------------------------------------------
(* Enrollment and recognition, each call run to completion (SpecGallery) *)

Names == {"carol", "dave"}
EnrollEmbeddings == {<<1, 0>>, <<0, 1>>, <<1, 2>>}

\* where an exception may leave add_new_face: nowhere, at add_person's INSERT
\* INTO persons, at its INSERT INTO face_embeddings, at its commit, or at the
\* 'new_face' alert that follows add_face
FailPoints == {"none", "persons", "embedding", "commit", "alert"}

\* the rows FaceDatabase.add_person has inserted when it returns or raises
add_person(persons, face_embeddings, name, embedding, fail) ==
    IF fail = "persons"
    THEN [persons |-> persons, face_embeddings |-> face_embeddings]
    ELSE LET person_id == Len(persons) + 1
         IN  IF fail = "embedding"
             THEN [persons |-> Append(persons, <<person_id, name>>),
                   face_embeddings |-> face_embeddings]
             ELSE [persons |-> Append(persons, <<person_id, name>>),
                   face_embeddings |-> Append(face_embeddings, <<person_id, embedding>>)]

\* add_person raises: add_face is left before "Update in-memory cache"
AddPersonRaises(fail) == fail \in {"persons", "embedding", "commit"}

\* FaceRecognizer.add_face: the cache after the call
add_face(embs, idents, person_id, name, embedding, fail) ==
    IF AddPersonRaises(fail)
    THEN [embs |-> embs, idents |-> idents]
    ELSE [embs   |-> Append(embs, embedding),
          idents |-> Append(idents, <<person_id, name>>)]

\* FaceProcessor.add_new_face(name, face_img), the embedder giving embedding
add_new_face(name, embedding, fail) ==
    LET db    == add_person(db_persons, db_face_embeddings, name, embedding, fail)
        cache == add_face(known_embeddings, known_identities,
                          Len(db_persons) + 1, name, embedding, fail)
    IN  /\ db_persons' = db.persons
        /\ db_face_embeddings' = db.face_embeddings
        /\ known_embeddings' = cache.embs
        /\ known_identities' = cache.idents
        /\ alerts' = IF fail = "none"
                     THEN Append(alerts, [alert_type |-> "new_face",
                                          person_id |-> Len(db_persons) + 1,
                                          unknown_id |-> 0, time |-> now])
                     ELSE alerts
        /\ add_outcome' = [status    |-> IF fail = "none" THEN "returned" ELSE "raised",
                           fail      |-> fail,
                           name      |-> name,
                           embedding |-> embedding]
        /\ UNCHANGED <<query, recognition, lookups, now, tracked_faces,
                       next_unknown_id, results, issued, calls, last_call,
                       raceVars, lifeVars, queueVars>>

AddNewFace ==
    /\ Len(db_persons) < MaxPersons
    /\ \E name \in Names, embedding \in EnrollEmbeddings, fail \in FailPoints :
          add_new_face(name, embedding, fail)

\* recognize_face(embedding) called on the current cache
Recognize ==
    /\ lookups < MaxLookups
    /\ \E q \in Embeddings :
        /\ query' = q
        /\ lookups' = lookups + 1
        /\ recognition' = RecognizeFace(known_embeddings, known_identities, q)
        /\ UNCHANGED <<dbVars, galleryVars, add_outcome, trackerVars, lifeVars, raceVars, queueVars>>

\* a fresh installation: an empty database, hence an empty gallery
InitGallery ==
    /\ db_persons = <<>>
    /\ db_face_embeddings = <<>>
    /\ known_embeddings = LoadKnownEmbeddings(<<>>, <<>>).embs
    /\ known_identities = LoadKnownEmbeddings(<<>>, <<>>).idents
    /\ CallersIdle
    /\ TrackerFresh
    /\ QueueFresh
    /\ LifeIdle

NextGallery == AddNewFace \/ Recognize

SpecGallery == InitGallery /\ [][NextGallery]_vars

\* C7: recognize_face returns Known, with the identity and similarity of a
\* gallery embedding of maximum similarity, exactly when the gallery is not
\* empty and that maximum is at least 0.6 (0.6 itself included); otherwise,
\* and always on an empty gallery, it returns None.
C7_KnownIffMaxAtLeastThreshold ==
    [][lookups' # lookups =>
         LET E == known_embeddings
             I == known_identities
             q == query'
             r == recognition'
             Best == {i \in 1..Len(E) : \A j \in 1..Len(E) : ~CosLess(q, E[i], E[j])}
         IN  /\ (r # None) <=>
                   (Len(E) > 0 /\ \E i \in Best : 25 * Dot(q, E[i]) * Dot(q, E[i])
                                                   >= 9 * NormSq(q) * NormSq(E[i])
                                                  /\ Dot(q, E[i]) >= 0)
             /\ (r # None) =>
                   \E i \in Best : /\ r.person_id = I[i][1]
                                   /\ r.name = I[i][2]
                                   /\ r.similarity = Similarity(q, E[i])
             /\ (Len(E) = 0) => (r = None)
      ]_vars

\* a face whose best similarity is exactly 0.6 (3 / sqrt(25)) was recognized
C7_Witness ==
    /\ recognition # None
    /\ recognition.similarity = <<3, 25>>
    /\ Len(known_embeddings) >= 1

\* C8: when add_person raises inside add_face, the caller sees the failure
\* and the gallery cache holds the new embedding and identity all the same.
C8_CacheKeepsFailedEnrollment ==
    (add_outcome.status = "raised" /\ AddPersonRaises(add_outcome.fail)) =>
        \E i \in 1..Len(known_embeddings) :
            /\ known_embeddings[i] = add_outcome.embedding
            /\ known_identities[i][2] = add_outcome.name

----------------------------------------------------------------------------
(* add_face and recognize_face on two threads (SpecGalleryRace).  Under   *)
(* the interpreter lock one list operation is one step; nothing orders    *)
(* the steps of one thread against those of the other.                     *)

IndexError == [raised |-> "IndexError"]

\* add_face: "Add to database".  A raise leaves add_face with the cache untouched.
EnrollAddPerson ==
    /\ pc_enroll = "idle"
    /\ Len(db_persons) < MaxPersons
    /\ \E name \in Names, embedding \in EnrollEmbeddings,
          fail \in {"none", "persons", "embedding", "commit"} :
          LET db == add_person(db_persons, db_face_embeddings, name, embedding, fail)
          IN  /\ db_persons' = db.persons
              /\ db_face_embeddings' = db.face_embeddings
              /\ IF AddPersonRaises(fail)
                 THEN /\ pc_enroll' = "idle"
                      /\ enroll_args' = None
                 ELSE /\ pc_enroll' = "append_embedding"
                      /\ enroll_args' = [person_id |-> Len(db_persons) + 1,
                                         name |-> name, embedding |-> embedding]
    /\ UNCHANGED <<galleryVars, callerVars, pc_reader, best_idx, trackerVars, lifeVars, queueVars>>

\* self.known_embeddings.append(embedding)
EnrollAppendEmbedding ==
    /\ pc_enroll = "append_embedding"
    /\ known_embeddings' = Append(known_embeddings, enroll_args.embedding)
    /\ pc_enroll' = "append_identity"
    /\ UNCHANGED <<dbVars, known_identities, callerVars, enroll_args, pc_reader,
                   best_idx, trackerVars, lifeVars, queueVars>>

\* self.known_identities.append((person_id, name)); return person_id
EnrollAppendIdentity ==
    /\ pc_enroll = "append_identity"
    /\ known_identities' = Append(known_identities,
                                  <<enroll_args.person_id, enroll_args.name>>)
    /\ pc_enroll' = "idle"
    /\ enroll_args' = None
    /\ UNCHANGED <<dbVars, known_embeddings, callerVars, pc_reader, best_idx,
                   trackerVars, lifeVars, queueVars>>

\* recognize_face(q): "if not self.known_embeddings: return None"
ReaderEnter ==
    /\ pc_reader = "idle"
    /\ \E q \in Embeddings :
          /\ query' = q
          /\ IF Len(known_embeddings) = 0
             THEN /\ recognition' = None
                  /\ pc_reader' = "idle"
             ELSE /\ recognition' = recognition
                  /\ pc_reader' = "score"
    /\ UNCHANGED <<dbVars, galleryVars, add_outcome, lookups, pc_enroll, enroll_args,
                   best_idx, trackerVars, lifeVars, queueVars>>

\* the similarities over self.known_embeddings, np.argmax, the threshold test
ReaderScore ==
    /\ pc_reader = "score"
    /\ LET idx == ArgMax(query, known_embeddings)
       IN  IF AboveThreshold(query, known_embeddings[idx])
           THEN /\ best_idx' = idx
                /\ pc_reader' = "lookup"
                /\ recognition' = recognition
           ELSE /\ best_idx' = 0
                /\ pc_reader' = "idle"
                /\ recognition' = None
    /\ UNCHANGED <<dbVars, galleryVars, query, add_outcome, lookups, pc_enroll, enroll_args,
                   trackerVars, lifeVars, queueVars>>

\* person_id, name = self.known_identities[best_idx]
ReaderLookup ==
    /\ pc_reader = "lookup"
    /\ recognition' =
          IF best_idx <= Len(known_identities)
          THEN [person_id  |-> known_identities[best_idx][1],
                name       |-> known_identities[best_idx][2],
                similarity |-> Similarity(query, known_embeddings[best_idx])]
          ELSE IndexError
    /\ pc_reader' = "idle"
    /\ best_idx' = 0
    /\ UNCHANGED <<dbVars, galleryVars, query, add_outcome, lookups, pc_enroll, enroll_args,
                   trackerVars, lifeVars, queueVars>>

NextGalleryRace ==
    \/ EnrollAddPerson
    \/ EnrollAppendEmbedding
    \/ EnrollAppendIdentity
    \/ ReaderEnter
    \/ ReaderScore
    \/ ReaderLookup

SpecGalleryRace == InitGallery /\ [][NextGalleryRace]_vars

\* C9: a recognize_face running beside an enrollment never sees a half
\* updated gallery: the index it has picked in known_embeddings always has
\* its entry in known_identities.
C9_ReaderSeesWholeGallery ==
    pc_reader = "lookup" => best_idx <= Len(known_identities)

----------------------------------------------------------------------------
(* The drop-oldest push onto a bounded queue (SpecQueue).                  *)
(*                                                                         *)
(* process_frame and the tail of every _process_frames loop push with      *)
(*     if q.full(): try: q.get_nowait() except Empty: pass                 *)
(*     try: q.put_nowait(item) except Full: pass                           *)
(* Each queue.Queue call is atomic (the queue's own mutex); the three      *)
(* calls of one push are not.  Producers are the threads that may be       *)
(* inside a push on the same queue at once: process_frame is a public      *)
(* method, called from whichever thread holds the component.               *)

\* Queue.full()
Full(q) == Len(q) >= FrameQueueMaxsize

\* Queue.get_nowait(): the queue afterwards (unchanged when it raises Empty)
GetNowait(q) == IF Len(q) = 0 THEN q ELSE Tail(q)

\* a get that waits for ever on an empty queue
BlockingGet(n) == IF n > 0 THEN "item" ELSE "blocked"

\* q.get(timeout=t): an item, or queue.Empty once the timeout has elapsed
TimedGet(n) == IF n > 0 THEN "item" ELSE "Empty"

\* a get that hands out the newest item
QueueGetNewest(q) == [item |-> q[Len(q)], rest |-> SubSeq(q, 1, Len(q) - 1)]

\* what Queue.get hands out of a queue that is not empty, and what it leaves
QueueGet(q) == [item |-> Head(q), rest |-> Tail(q)]

\* a put that appends whatever the queue holds
PutUnchecked(q, item) == Append(q, item)

\* Queue.put_nowait(item): the queue afterwards (unchanged when it raises Full)
PutNowait(q, item) == IF Full(q) THEN q ELSE Append(q, item)

\* start() / stop() as far as the queue sees them: the flag
SetRunning ==
    /\ is_running' = ~is_running
    /\ UNCHANGED <<frame_queue, pc_push, push_item, next_frame, got>>
    /\ UNCHANGED <<dbVars, galleryVars, callerVars, raceVars, trackerVars, lifeVars>>

\* a process_frame that takes the frame whatever the flag
TakesFrameAlways(flag) == TRUE

\* "if not self.is_running: ... return": the frame is taken only while running
TakesFrame(flag) == flag

\* process_frame(frame): "if not self.is_running: return"
PushBegin(p) ==
    /\ pc_push[p] = "idle"
    /\ next_frame <= MaxFrames
    /\ next_frame' = next_frame + 1
    /\ IF TakesFrame(is_running)
       THEN /\ pc_push' = [pc_push EXCEPT ![p] = "full"]
            /\ push_item' = [push_item EXCEPT ![p] = next_frame]
       ELSE UNCHANGED <<pc_push, push_item>>
    /\ UNCHANGED <<is_running, frame_queue, got>>
    /\ UNCHANGED <<dbVars, galleryVars, callerVars, raceVars, trackerVars, lifeVars>>

\* if self.frame_queue.full():
PushCheckFull(p) ==
    /\ pc_push[p] = "full"
    /\ pc_push' = [pc_push EXCEPT ![p] = IF Full(frame_queue) THEN "get_nowait"
                                                             ELSE "put_nowait"]
    /\ UNCHANGED <<is_running, frame_queue, push_item, next_frame, got>>
    /\ UNCHANGED <<dbVars, galleryVars, callerVars, raceVars, trackerVars, lifeVars>>

\* try: self.frame_queue.get_nowait() except queue.Empty: pass
PushEvict(p) ==
    /\ pc_push[p] = "get_nowait"
    /\ frame_queue' = GetNowait(frame_queue)
    /\ pc_push' = [pc_push EXCEPT ![p] = "put_nowait"]
    /\ UNCHANGED <<is_running, push_item, next_frame, got>>
    /\ UNCHANGED <<dbVars, galleryVars, callerVars, raceVars, trackerVars, lifeVars>>

\* try: self.frame_queue.put_nowait(frame) except queue.Full: pass
PushPut(p) ==
    /\ pc_push[p] = "put_nowait"
    /\ frame_queue' = PutNowait(frame_queue, push_item[p])
    /\ pc_push' = [pc_push EXCEPT ![p] = "idle"]
    /\ push_item' = [push_item EXCEPT ![p] = 0]
    /\ UNCHANGED <<is_running, next_frame, got>>
    /\ UNCHANGED <<dbVars, galleryVars, callerVars, raceVars, trackerVars, lifeVars>>

\* the consumer (get_frame, get_result): "return self.frame_queue.get(timeout=...)",
\* "except queue.Empty: return None"; got = 0 stands for None
ConsumerGet ==
    /\ \/ /\ TimedGet(Len(frame_queue)) = "item"
          /\ got' = QueueGet(frame_queue).item
          /\ frame_queue' = QueueGet(frame_queue).rest
       \/ /\ TimedGet(Len(frame_queue)) = "Empty"
          /\ got' = 0
          /\ frame_queue' = frame_queue
    /\ UNCHANGED <<is_running, pc_push, push_item, next_frame>>
    /\ UNCHANGED <<dbVars, galleryVars, callerVars, raceVars, trackerVars, lifeVars>>

InitQueue ==
    /\ db_persons = <<>>
    /\ db_face_embeddings = <<>>
    /\ known_embeddings = <<>>
    /\ known_identities = <<>>
    /\ CallersIdle
    /\ TrackerFresh
    /\ QueueFresh
    /\ LifeIdle

NextQueue ==
    \/ SetRunning
    \/ \E p \in Producers : PushBegin(p)
    \/ \E p \in Producers : PushCheckFull(p)
    \/ \E p \in Producers : PushEvict(p)
    \/ \E p \in Producers : PushPut(p)
    \/ ConsumerGet

SpecQueue == InitQueue /\ [][NextQueue]_vars

PushStep(p) == PushCheckFull(p) \/ PushEvict(p) \/ PushPut(p)

\* C13: the queue never holds more items than its capacity, and a push never
\* waits for the consumer: whatever the queue holds, a pusher in the middle
\* of a push can take its next step.
C13_BoundedAndPushNeverWaits ==
    /\ Len(frame_queue) <= FrameQueueMaxsize
    /\ \A p \in Producers : pc_push[p] # "idle" => ENABLED PushStep(p)

\* more pushes than the capacity have completed and the queue is full
C13_Witness ==
    /\ Len(frame_queue) = FrameQueueMaxsize
    /\ next_frame > FrameQueueMaxsize + 1
    /\ \A p \in Producers : pc_push[p] = "idle"

QueueItems(q) == {q[i] : i \in 1..Len(q)}

\* C1: a push that finds the queue full evicts the oldest item, and the item
\* pushed is in the queue when the push completes, whatever the consumer and
\* any other pushing thread do between the push's three queue calls.
C1_PushedItemRetained ==
    [][\A p \in Producers :
         /\ (pc_push[p] = "get_nowait" /\ pc_push'[p] = "put_nowait" /\ Len(frame_queue) > 0)
               => frame_queue' = Tail(frame_queue)
         /\ (pc_push[p] = "put_nowait" /\ pc_push'[p] = "idle")
               => push_item[p] \in QueueItems(frame_queue')
      ]_vars

\* C27: a push evicts an item only from a queue that is at capacity at the
\* moment of the eviction, whatever the consumer does between the push's
\* full(), get_nowait() and put_nowait().
C27_EvictsOnlyFromFullQueue ==
    [][\A p \in Producers :
         (/\ pc_push[p] = "get_nowait"
          /\ pc_push'[p] = "put_nowait"
          /\ frame_queue' # frame_queue)
            => Full(frame_queue)
      ]_vars

\* C30: process_frame called while is_running is False leaves the queue as it
\* is, at any fill level: the call enqueues nothing, evicts nothing and starts
\* no push.
C30_NotRunningLeavesQueue ==
    [][(next_frame' # next_frame /\ ~is_running) =>
         /\ frame_queue' = frame_queue
         /\ pc_push' = pc_push
         /\ push_item' = push_item
      ]_vars

\* the component is stopped with a full queue of the first frames, and the
\* frame handed to it after those is not in the queue
C30_Witness ==
    /\ ~is_running
    /\ frame_queue = [i \in 1..FrameQueueMaxsize |-> i]
    /\ next_frame = FrameQueueMaxsize + 2
    /\ \A p \in Producers : pc_push[p] = "idle"

----------------------------------------------------------------------------
(* The threads of a running system: start(), stop() and the worker loops of
   CameraStream, HailoFaceProcessor, FaceTrackingSystem and CoreEngine.
   Queues are followed by their length. *)

restVars == <<dbVars, galleryVars, callerVars, raceVars, queueVars, trackerVars,
              startupVars, detectorVars, pipeline>>

CameraQueueMaxsize == 10
ResultQueueMaxsize == 10

\* queue.Queue(maxsize=...)
Maxsize(q) ==
    CASE q = "camera.frame_queue"  -> CameraQueueMaxsize
      [] q = "hailo.frame_queue"   -> FrameQueueMaxsize
      [] q = "hailo.result_queue"  -> ResultQueueMaxsize
      [] q = "fts.result_queue"    -> ResultQueueMaxsize
      [] q = "engine.frame_queue"  -> FrameQueueMaxsize
      [] q = "engine.result_queue" -> ResultQueueMaxsize

\* "if q.full(): q.get_nowait()" then "q.put_nowait(item)", by the queue's only pusher
Pushed(ql, q) ==
    [ql EXCEPT ![q] = IF ql[q] >= Maxsize(q) THEN Maxsize(q) ELSE ql[q] + 1]

Taken(ql, q) == [ql EXCEPT ![q] = ql[q] - 1]

\* the first statement of the loop body of worker w
BodyOf(w) ==
    CASE w[1] = "capture"  -> "read"
      [] w[1] = "tracking" -> "get_frame"
      [] OTHER             -> "get"

\* the places of a loop body at which the worker holds an item it took
HoldsItem(w) == worker[w] \in {"have", "process_frame", "get_result", "show"}

Alive(w) == worker[w] \notin {"none", "done"}

\* "while self.is_running:"
LoopCheck(w) ==
    /\ worker[w] = "loop"
    /\ worker' = [worker EXCEPT ![w] = IF running[ComponentOf(w)] THEN BodyOf(w) ELSE "done"]
    /\ UNCHANGED <<app, main_pc, running, camera, queue_len, captured, starts,
                   in_flight_at_stop, restVars>>

\* the thread of CameraStream._process_frames
CaptureWorker == <<"capture", 1>>

\* a read failure that would leave the loop
ReadFailedBreak == "done"

\* "if not ret: ... continue": back to the test of the flag
ReadFailedContinue == "loop"

\* CameraStream._process_frames: "ret, frame = self.camera.read()", then the
\* push of the frame or, "if not ret", the warning and the sleep; with
\* self.camera already None the call raises and the thread ends
CaptureRead ==
    /\ worker[CaptureWorker] = "read"
    /\ \/ /\ camera = "None"
          /\ worker' = [worker EXCEPT ![CaptureWorker] = "done"]
          /\ UNCHANGED <<queue_len, captured>>
       \/ /\ camera = "open"
          /\ captured < MaxCaptures
          /\ captured' = captured + 1
          /\ queue_len' = Pushed(queue_len, "camera.frame_queue")
          /\ worker' = [worker EXCEPT ![CaptureWorker] = "loop"]
       \/ /\ camera = "open"
          /\ worker' = [worker EXCEPT ![CaptureWorker] = "sleep"]
          /\ UNCHANGED <<queue_len, captured>>
    /\ UNCHANGED <<app, main_pc, running, camera, starts, in_flight_at_stop, restVars>>

\* CameraStream._process_frames after a failed read: "time.sleep(0.1)" ends
\* and "continue" takes the thread to the next iteration
CaptureSleep ==
    /\ worker[CaptureWorker] = "sleep"
    /\ worker' = [worker EXCEPT ![CaptureWorker] = ReadFailedContinue]
    /\ UNCHANGED <<app, main_pc, running, camera, queue_len, captured, starts,
                   in_flight_at_stop, restVars>>

\* "frame = self.frame_queue.get(timeout=0.1)" / "except queue.Empty: continue"
\* of HailoFaceProcessor._process_frames and CoreEngine._process_frames, and
\* "result = self.result_queue.get(timeout=0.5)" of _display_results
WorkerGet(w, q, next) ==
    /\ worker[w] = "get"
    /\ \/ /\ TimedGet(queue_len[q]) = "item"
          /\ queue_len' = Taken(queue_len, q)
          /\ worker' = [worker EXCEPT ![w] = next]
       \/ /\ TimedGet(queue_len[q]) = "Empty"
          /\ worker' = [worker EXCEPT ![w] = "loop"]
          /\ UNCHANGED queue_len
    /\ UNCHANGED <<app, main_pc, running, camera, captured, starts,
                   in_flight_at_stop, restVars>>

HailoGet == WorkerGet(<<"hailo", 1>>, "hailo.frame_queue", "have")

DisplayGet == WorkerGet(<<"display", 1>>, "fts.result_queue", "show")

EngineGet(i) == WorkerGet(<<"engine", i>>, "engine.frame_queue", "have")

\* the rest of the loop body: the result is pushed onto the result queue
WorkerHave(w, q) ==
    /\ worker[w] = "have"
    /\ queue_len' = Pushed(queue_len, q)
    /\ worker' = [worker EXCEPT ![w] = "loop"]
    /\ UNCHANGED <<app, main_pc, running, camera, captured, starts,
                   in_flight_at_stop, restVars>>

\* HailoFaceProcessor._process_frames: the detections are pushed; or the
\* inference raises, outside the loop's only try block, and the thread ends
HailoHave ==
    \/ WorkerHave(<<"hailo", 1>>, "hailo.result_queue")
    \/ /\ worker[<<"hailo", 1>>] = "have"
       /\ worker' = [worker EXCEPT ![<<"hailo", 1>>] = "done"]
       /\ UNCHANGED <<app, main_pc, running, camera, queue_len, captured, starts,
                      in_flight_at_stop, restVars>>

\* CoreEngine._process_frames: the result is pushed, or _process_single_frame
\* raises and "except Exception" logs it
EngineHave(i) ==
    \/ WorkerHave(<<"engine", i>>, "engine.result_queue")
    \/ /\ worker[<<"engine", i>>] = "have"
       /\ worker' = [worker EXCEPT ![<<"engine", i>>] = "loop"]
       /\ UNCHANGED <<app, main_pc, running, camera, queue_len, captured, starts,
                      in_flight_at_stop, restVars>>

\* FaceTrackingSystem._process_frames: "frame = self.camera.get_frame()",
\* "if frame is None: continue"
TrackingGetFrame ==
    LET w == <<"tracking", 1>>
    IN  /\ worker[w] = "get_frame"
        /\ \/ /\ TimedGet(queue_len["camera.frame_queue"]) = "item"
              /\ queue_len' = Taken(queue_len, "camera.frame_queue")
              /\ worker' = [worker EXCEPT ![w] = "process_frame"]
           \/ /\ TimedGet(queue_len["camera.frame_queue"]) = "Empty"
              /\ worker' = [worker EXCEPT ![w] = "loop"]
              /\ UNCHANGED queue_len
        /\ UNCHANGED <<app, main_pc, running, camera, captured, starts,
                       in_flight_at_stop, restVars>>

\* "self.hailo_processor.process_frame(frame)", which returns at once when the
\* processor is not running
TrackingProcessFrame ==
    LET w == <<"tracking", 1>>
    IN  /\ worker[w] = "process_frame"
        /\ queue_len' = IF running["hailo"]
                        THEN Pushed(queue_len, "hailo.frame_queue")
                        ELSE queue_len
        /\ worker' = [worker EXCEPT ![w] = "get_result"]
        /\ UNCHANGED <<app, main_pc, running, camera, captured, starts,
                       in_flight_at_stop, restVars>>

\* "hailo_result = self.hailo_processor.get_result()" and, given a result,
\* process_detections and the push onto self.result_queue; an exception
\* raised on the way is logged by "except Exception"
TrackingGetResult ==
    LET w == <<"tracking", 1>>
    IN  /\ worker[w] = "get_result"
        /\ \/ /\ TimedGet(queue_len["hailo.result_queue"]) = "item"
              /\ queue_len' = Pushed(Taken(queue_len, "hailo.result_queue"),
                                     "fts.result_queue")
           \/ /\ TimedGet(queue_len["hailo.result_queue"]) = "item"
              /\ queue_len' = Taken(queue_len, "hailo.result_queue")
           \/ /\ TimedGet(queue_len["hailo.result_queue"]) = "Empty"
              /\ UNCHANGED queue_len
        /\ worker' = [worker EXCEPT ![w] = "loop"]
        /\ UNCHANGED <<app, main_pc, running, camera, captured, starts,
                       in_flight_at_stop, restVars>>

\* _display_results: the frame is drawn and shown; key 'q' clears the system's
\* flag and breaks out of the loop
DisplayShow ==
    LET w == <<"display", 1>>
    IN  /\ worker[w] = "show"
        /\ \/ /\ worker' = [worker EXCEPT ![w] = "loop"]
              /\ UNCHANGED running
           \/ /\ worker' = [worker EXCEPT ![w] = "done"]
              /\ running' = [running EXCEPT !["fts"] = FALSE]
        /\ UNCHANGED <<app, main_pc, camera, queue_len, captured, starts,
                       in_flight_at_stop, restVars>>

\* the workers caught with an item in hand when stop() clears the flag of c
CaughtBy(c) == in_flight_at_stop \cup {w \in Workers : ComponentOf(w) = c /\ HoldsItem(w)}

\* FaceTrackingSystem.start: "self.is_running = True"
FtsStart ==
    /\ app = "tracking"
    /\ main_pc = "init"
    /\ running' = [running EXCEPT !["fts"] = TRUE]
    /\ main_pc' = "camera.start"
    /\ UNCHANGED <<app, camera, worker, queue_len, captured, starts,
                   in_flight_at_stop, restVars>>

\* CameraStream.start: the device opens, the flag is set and the thread started;
\* or it does not open, RuntimeError reaches FaceTrackingSystem.start, which
\* clears its flag and returns False, and main returns through its finally
CameraStart ==
    /\ main_pc = "camera.start"
    /\ \/ /\ camera' = "open"
          /\ running' = [running EXCEPT !["camera"] = TRUE]
          /\ worker' = [worker EXCEPT ![<<"capture", 1>>] = "loop"]
          /\ main_pc' = "hailo.start"
       \/ /\ running' = [running EXCEPT !["fts"] = FALSE]
          /\ main_pc' = "finally"
          /\ UNCHANGED <<camera, worker>>
    /\ UNCHANGED <<app, queue_len, captured, starts, in_flight_at_stop, restVars>>

\* HailoFaceProcessor.start
HailoStart ==
    /\ main_pc = "hailo.start"
    /\ running' = [running EXCEPT !["hailo"] = TRUE]
    /\ worker' = [worker EXCEPT ![<<"hailo", 1>>] = "loop"]
    /\ main_pc' = "processing_thread.start"
    /\ UNCHANGED <<app, camera, queue_len, captured, starts, in_flight_at_stop, restVars>>

\* FaceTrackingSystem.start: the processing thread, then the display thread
SpawnProcessing ==
    /\ main_pc = "processing_thread.start"
    /\ worker' = [worker EXCEPT ![<<"tracking", 1>>] = "loop"]
    /\ main_pc' = "display_thread.start"
    /\ UNCHANGED <<app, running, camera, queue_len, captured, starts,
                   in_flight_at_stop, restVars>>

SpawnDisplay ==
    /\ main_pc = "display_thread.start"
    /\ worker' = [worker EXCEPT ![<<"display", 1>>] = "loop"]
    /\ main_pc' = "wait"
    /\ UNCHANGED <<app, running, camera, queue_len, captured, starts,
                   in_flight_at_stop, restVars>>

\* main: "while tracking_system.is_running: time.sleep(1.0)" falls through
MainWait ==
    /\ main_pc = "wait"
    /\ ~running["fts"]
    /\ main_pc' = "finally"
    /\ UNCHANGED <<app, running, camera, worker, queue_len, captured, starts,
                   in_flight_at_stop, restVars>>

\* main: Ctrl+C during the wait
KeyboardInterrupt ==
    /\ main_pc = "wait"
    /\ main_pc' = "finally"
    /\ UNCHANGED <<app, running, camera, worker, queue_len, captured, starts,
                   in_flight_at_stop, restVars>>

\* FaceTrackingSystem.stop, called from main's finally: it returns at once
\* when the flag is already clear; else it clears it and joins the two threads,
\* each join returning after at most 2 s
FtsStop ==
    /\ main_pc = "finally"
    /\ IF running["fts"]
       THEN /\ running' = [running EXCEPT !["fts"] = FALSE]
            /\ in_flight_at_stop' = CaughtBy("fts")
            /\ main_pc' = "camera.stop"
       ELSE /\ main_pc' = "exited"
            /\ UNCHANGED <<running, in_flight_at_stop>>
    /\ UNCHANGED <<app, camera, worker, queue_len, captured, starts, restVars>>

\* CameraStream.stop: the flag and the join of at most 1 s
CameraStop ==
    /\ main_pc = "camera.stop"
    /\ IF running["camera"]
       THEN /\ running' = [running EXCEPT !["camera"] = FALSE]
            /\ in_flight_at_stop' = CaughtBy("camera")
            /\ main_pc' = "camera.release"
       ELSE /\ main_pc' = "hailo.stop"
            /\ UNCHANGED <<running, in_flight_at_stop>>
    /\ UNCHANGED <<app, camera, worker, queue_len, captured, starts, restVars>>

\* CameraStream.stop: "self.camera.release()", "self.camera = None"
CameraRelease ==
    /\ main_pc = "camera.release"
    /\ camera' = "None"
    /\ main_pc' = "hailo.stop"
    /\ UNCHANGED <<app, running, worker, queue_len, captured, starts,
                   in_flight_at_stop, restVars>>

\* HailoFaceProcessor.stop
HailoStop ==
    /\ main_pc = "hailo.stop"
    /\ IF running["hailo"]
       THEN /\ running' = [running EXCEPT !["hailo"] = FALSE]
            /\ in_flight_at_stop' = CaughtBy("hailo")
       ELSE UNCHANGED <<running, in_flight_at_stop>>
    /\ main_pc' = "close"
    /\ UNCHANGED <<app, camera, worker, queue_len, captured, starts, restVars>>

\* FaceTrackingSystem.stop: "self.face_processor.close()", then main returns
FaceProcessorClose ==
    /\ main_pc = "close"
    /\ main_pc' = "exited"
    /\ UNCHANGED <<app, running, camera, worker, queue_len, captured, starts,
                   in_flight_at_stop, restVars>>

\* CoreEngine.start on an engine that is not running; it refuses ("return
\* False") when the engine is not initialized
EngineStart ==
    /\ app = "engine"
    /\ is_initialized
    /\ ~running["engine"]
    /\ starts < MaxStarts
    /\ running' = [running EXCEPT !["engine"] = TRUE]
    /\ starts' = starts + 1
    /\ worker' = [worker EXCEPT ![<<"engine", starts + 1>>] = "loop"]
    /\ UNCHANGED <<app, main_pc, camera, queue_len, captured, in_flight_at_stop, restVars>>

\* CoreEngine.stop on a running engine: the flag and the join of at most 2 s
EngineStop ==
    /\ app = "engine"
    /\ running["engine"]
    /\ running' = [running EXCEPT !["engine"] = FALSE]
    /\ in_flight_at_stop' = CaughtBy("engine")
    /\ UNCHANGED <<app, main_pc, camera, worker, queue_len, captured, starts, restVars>>

\* CoreEngine.process_frame on a running engine
EngineProcessFrame ==
    /\ app = "engine"
    /\ running["engine"]
    /\ captured < MaxCaptures
    /\ captured' = captured + 1
    /\ queue_len' = Pushed(queue_len, "engine.frame_queue")
    /\ UNCHANGED <<app, main_pc, running, camera, worker, starts,
                   in_flight_at_stop, restVars>>

\* CoreEngine.get_result handing out a result
EngineGetResult ==
    /\ app = "engine"
    /\ queue_len["engine.result_queue"] > 0
    /\ queue_len' = Taken(queue_len, "engine.result_queue")
    /\ UNCHANGED <<app, main_pc, running, camera, worker, captured, starts,
                   in_flight_at_stop, restVars>>

\* the steps of worker w
WorkerStep(w) ==
    \/ LoopCheck(w)
    \/ w = <<"capture", 1>> /\ (CaptureRead \/ CaptureSleep)
    \/ w = <<"hailo", 1>> /\ (HailoGet \/ HailoHave)
    \/ w = <<"tracking", 1>> /\ (TrackingGetFrame \/ TrackingProcessFrame \/ TrackingGetResult)
    \/ w = <<"display", 1>> /\ (DisplayGet \/ DisplayShow)
    \/ w[1] = "engine" /\ (EngineGet(w[2]) \/ EngineHave(w[2]))

\* the steps the main thread of face_tracking takes by itself
MainStep ==
    \/ FtsStart
    \/ CameraStart
    \/ HailoStart
    \/ SpawnProcessing
    \/ SpawnDisplay
    \/ MainWait
    \/ FtsStop
    \/ CameraStop
    \/ CameraRelease
    \/ HailoStop
    \/ FaceProcessorClose

\* either face_tracking.main in its camera mode after a successful setup, or a
\* client of an initialized CoreEngine
InitLifecycle ==
    /\ db_persons = <<>>
    /\ db_face_embeddings = <<>>
    /\ known_embeddings = <<>>
    /\ known_identities = <<>>
    /\ CallersIdle
    /\ TrackerFresh
    /\ QueueFresh
    /\ app \in {"tracking", "engine"}
    /\ main_pc = IF app = "tracking" THEN "init" ELSE "api"
    /\ running = [c \in Components |-> FALSE]
    /\ camera = "None"
    /\ worker = [w \in Workers |-> "none"]
    /\ queue_len = [q \in Queues |-> 0]
    /\ captured = 0
    /\ starts = 0
    /\ in_flight_at_stop = {}
    /\ is_initialized = (app = "engine")
    /\ models = IF app = "engine" THEN RequiredModels ELSE {}
    /\ setup = IF app = "tracking"
               THEN [result |-> "True", use_gstreamer |-> FALSE,
                     model_exists |-> TRUE, device_ok |-> TRUE]
               ELSE NoSetup
    /\ initialize_returned = IF app = "engine"
                             THEN [value |-> "True", missing |-> {}]
                             ELSE NotInitialized
    /\ DetectorIdle
    /\ pipeline = PipelineIdle

NextLifecycle ==
    \/ FtsStart
    \/ CameraStart
    \/ HailoStart
    \/ SpawnProcessing
    \/ SpawnDisplay
    \/ MainWait
    \/ KeyboardInterrupt
    \/ FtsStop
    \/ CameraStop
    \/ CameraRelease
    \/ HailoStop
    \/ FaceProcessorClose
    \/ EngineStart
    \/ EngineStop
    \/ EngineProcessFrame
    \/ EngineGetResult
    \/ \E w \in Workers : LoopCheck(w)
    \/ CaptureRead
    \/ CaptureSleep
    \/ HailoGet
    \/ HailoHave
    \/ TrackingGetFrame
    \/ TrackingProcessFrame
    \/ TrackingGetResult
    \/ DisplayGet
    \/ DisplayShow
    \/ \E i \in 1..MaxStarts : EngineGet(i)
    \/ \E i \in 1..MaxStarts : EngineHave(i)

\* every started thread keeps being scheduled, a device read returns, and the
\* main thread of face_tracking runs on; nobody is obliged to press a key, to
\* interrupt, or to call the engine
SpecLifecycle ==
    /\ InitLifecycle
    /\ [][NextLifecycle]_vars
    /\ \A w \in Workers : WF_vars(WorkerStep(w))
    /\ WF_vars(MainStep)

\* the places of a loop body at which a worker waits on a queue
Waiting(w) == worker[w] \in {"get", "get_frame"}

\* a worker handles the item it holds once and comes back to the test of its
\* flag, and with the flag clear that test ends the thread
FinishesItemThenExits ==
    [][\A w \in Workers :
         /\ (HoldsItem(w) /\ worker'[w] # worker[w])
               => /\ worker'[w] \in {"loop", "done", "get_result"}
                  /\ worker'[w] = "get_result" => worker[w] = "process_frame"
         /\ (worker[w] = "loop" /\ ~running[ComponentOf(w)] /\ worker'[w] # worker[w])
               => worker'[w] = "done"
      ]_vars

\* a worker whose flag stays clear ends, and stays ended
ClearedFlagEndsWorker ==
    \A w \in Workers : <>[](~running[ComponentOf(w)]) => <>[](~Alive(w))

\* once FaceTrackingSystem.stop has cleared the flag, the four threads it
\* started all end
StopEndsAllWorkers ==
    (main_pc = "camera.stop") ~>
        (\A w \in {"capture", "hailo", "tracking", "display"} \X {1} : ~Alive(w))

\* no worker stays in a wait on a queue
NeverStaysBlocked ==
    \A w \in Workers : Waiting(w) ~> ~Waiting(w)

ProcessingWorkers == {w \in Workers : w[1] \in {"hailo", "tracking", "engine"}}

\* C12: an inference failure on one frame is logged and the frame skipped; the
\* worker that met it goes on with its loop, so that a processing worker
\* (Hailo, tracking, CoreEngine) ends only once its component's flag is clear.
C12_FailureKeepsWorkerAlive ==
    [][\A w \in ProcessingWorkers :
         (Alive(w) /\ ~Alive(w)') => ~running[ComponentOf(w)]
      ]_vars

(***************************************************************************)
(* Startup: ModelManager.load_models, CoreEngine.initialize and            *)
(* FaceTrackingSystem.setup                                                *)
(***************************************************************************)

\* a configuration whose 'required' entry is ignored
NotRequired(model_config) == FALSE

\* model_config['required'] / model_config.get('required', False)
Required(model_config) == model_config.required

\* ModelManager.load_models: the awaits of _load_model in the order of
\* model_configs, from the i-th on. loadable is the set of models whose
\* _load_model does not raise inside its try (the file is there or the
\* download writes it, and the model loads). A failure is swallowed for an
\* optional model and re-raised for a required one, which ends the awaits; the
\* models loaded before it stay in self.models
RECURSIVE LoadFrom(_, _, _)
LoadFrom(i, loaded, loadable) ==
    IF i > Len(ModelConfigs)
    THEN [models |-> loaded, raised |-> FALSE]
    ELSE IF ModelConfigs[i].name \in loadable
    THEN LoadFrom(i + 1, loaded \cup {ModelConfigs[i].name}, loadable)
    ELSE IF Required(ModelConfigs[i])
    THEN [models |-> loaded, raised |-> TRUE]
    ELSE LoadFrom(i + 1, loaded, loadable)

\* ModelManager.load_models, with its check of the required models at the end
LoadModels(loaded, loadable) ==
    LET after == LoadFrom(1, loaded, loadable)
    IN  [after EXCEPT !.raised =
            \/ after.raised
            \/ \E i \in 1..Len(ModelConfigs) :
                  Required(ModelConfigs[i]) /\ ModelConfigs[i].name \notin after.models]

\* CoreEngine.initialize: True at once on an initialized engine; otherwise the
\* models are loaded and the flag is set, or load_models raises and the except
\* returns False with the flag as it was
EngineInitialize ==
    /\ app = "engine"
    /\ \E loadable \in SUBSET ModelNames :
          IF is_initialized
          THEN /\ initialize_returned' = [value |-> "True", missing |-> {}]
               /\ UNCHANGED <<is_initialized, models>>
          ELSE \E after \in {LoadModels(models, loadable)} :
                  /\ models' = after.models
                  /\ is_initialized' = ~after.raised
                  /\ initialize_returned' =
                        [value   |-> IF after.raised THEN "False" ELSE "True",
                         missing |-> RequiredModels \ loadable]
    /\ UNCHANGED <<setup, lifeCore, detectorVars, pipeline, dbVars, galleryVars, callerVars,
                   raceVars, queueVars, trackerVars>>

\* HailoFaceProcessor.__init__: FileNotFoundError without the model file,
\* RuntimeError when hailortcli cannot identify the device
HailoFaceProcessorInit(model_exists, device_ok) == model_exists /\ device_ok

\* FaceTrackingSystem.setup, called by face_tracking.main. With use_gstreamer
\* no HailoFaceProcessor is constructed; otherwise an exception of its
\* constructor is caught, setup returns False and main returns 1 through its
\* finally
FtsSetup ==
    /\ app = "tracking"
    /\ main_pc = "setup"
    /\ \E use_gstreamer \in BOOLEAN, model_exists \in BOOLEAN, device_ok \in BOOLEAN :
          LET ok == use_gstreamer \/ HailoFaceProcessorInit(model_exists, device_ok)
          IN  /\ setup' = [result |-> IF ok THEN "True" ELSE "False",
                           use_gstreamer |-> use_gstreamer,
                           model_exists |-> model_exists, device_ok |-> device_ok]
              /\ main_pc' = IF ~ok THEN "finally"
                            ELSE IF use_gstreamer THEN "gstreamer" ELSE "init"
    /\ UNCHANGED <<app, running, camera, worker, queue_len, captured, starts,
                   in_flight_at_stop, is_initialized, models, initialize_returned,
                   detectorVars, pipeline, dbVars, galleryVars, callerVars, raceVars, queueVars,
                   trackerVars>>

\* FaceTrackingSystem.start with use_gstreamer: the flag is set and the thread
\* that runs the external pipeline is started; main then waits on the flag
FtsStartGstreamer ==
    /\ app = "tracking"
    /\ main_pc = "gstreamer"
    /\ running' = [running EXCEPT !["fts"] = TRUE]
    /\ main_pc' = "pipeline"
    /\ UNCHANGED <<app, camera, worker, queue_len, captured, starts,
                   in_flight_at_stop, restVars>>

\* a process that has constructed its objects and neither loaded a model nor
\* set anything up
InitStartup ==
    /\ db_persons = <<>>
    /\ db_face_embeddings = <<>>
    /\ known_embeddings = <<>>
    /\ known_identities = <<>>
    /\ CallersIdle
    /\ TrackerFresh
    /\ QueueFresh
    /\ app \in {"tracking", "engine"}
    /\ main_pc = IF app = "tracking" THEN "setup" ELSE "api"
    /\ running = [c \in Components |-> FALSE]
    /\ camera = "None"
    /\ worker = [w \in Workers |-> "none"]
    /\ queue_len = [q \in Queues |-> 0]
    /\ captured = 0
    /\ starts = 0
    /\ in_flight_at_stop = {}
    /\ is_initialized = FALSE
    /\ models = {}
    /\ setup = NoSetup
    /\ initialize_returned = NotInitialized
    /\ DetectorIdle
    /\ pipeline = PipelineIdle

NextStartup ==
    \/ EngineInitialize
    \/ EngineStart
    \/ EngineStop
    \/ FtsSetup
    \/ FtsStartGstreamer
    \/ FtsStart
    \/ CameraStart
    \/ HailoStart
    \/ SpawnProcessing
    \/ SpawnDisplay
    \/ FtsStop

SpecStartup == InitStartup /\ [][NextStartup]_vars

\* C18: a required model that cannot be loaded is fatal. An initialize that
\* could not load a required model returned False and left is_initialized
\* False; the engine is running, or has a processing thread, only if it is
\* initialized, and it is initialized only with both required models loaded.
\* A setup whose HailoFaceProcessor lacked its model or its device returned
\* False, and nothing of the tracking system was started after it
C18_RequiredModelFailureIsFatal ==
    /\ initialize_returned.missing # {} => initialize_returned.value = "False"
    /\ initialize_returned.value = "False" => ~is_initialized
    /\ running["engine"] => is_initialized
    /\ (\E i \in 1..MaxStarts : worker[<<"engine", i>>] # "none") => is_initialized
    /\ is_initialized => RequiredModels \subseteq models
    /\ ( /\ setup.result # "none"
         /\ ~setup.use_gstreamer
         /\ ~(setup.model_exists /\ setup.device_ok) )
       => /\ setup.result = "False"
          /\ \A c \in {"fts", "camera", "hailo"} : ~running[c]
          /\ main_pc \in {"finally", "exited"}

\* initialize has just failed on the recognition model, after the primary
\* detector was loaded
C18_Witness ==
    /\ initialize_returned = [value |-> "False", missing |-> {"face_recognition"}]
    /\ "face_detection_primary" \in models
    /\ ~is_initialized

\* C20: a failed camera read does not end the capture loop. A failed read of
\* the open device leaves the frame queue as it was and sends the thread to
\* its sleep, from which it comes back to the test of is_running; at that
\* test, with the flag set, the thread's next step is another read; and a
\* successful read, whatever came before it, pushes its frame
C20_ReadFailureKeepsCapturing ==
    /\ [][
          /\ (worker[CaptureWorker] = "read" /\ camera = "open"
                 /\ worker'[CaptureWorker] # "read") =>
                \/ /\ worker'[CaptureWorker] = "sleep"
                   /\ captured' = captured
                   /\ queue_len' = queue_len
                \/ /\ worker'[CaptureWorker] = "loop"
                   /\ captured' = captured + 1
                   /\ queue_len' = Pushed(queue_len, "camera.frame_queue")
          /\ (worker[CaptureWorker] = "sleep" /\ worker'[CaptureWorker] # "sleep") =>
                /\ worker'[CaptureWorker] = "loop"
                /\ queue_len' = queue_len
         ]_vars
    /\ [](worker[CaptureWorker] = "sleep" => ENABLED CaptureSleep)
    /\ []((worker[CaptureWorker] = "loop" /\ running["camera"]) =>
            ENABLED (LoopCheck(CaptureWorker) /\ worker'[CaptureWorker] = "read"))
    /\ []((worker[CaptureWorker] = "read" /\ camera = "open" /\ captured < MaxCaptures) =>
            ENABLED (CaptureRead /\ queue_len' = Pushed(queue_len, "camera.frame_queue")))

\* the capture thread sleeps after a failed read, the stream still running and
\* the device still to deliver its frames
C20_Witness ==
    /\ worker[CaptureWorker] = "sleep"
    /\ running["camera"]
    /\ camera = "open"
    /\ captured = 0

----------------------------------------------------------------------------
(* EnhancedFaceDetector: _calculate_iou, _non_max_suppression, detect_faces *)

\* iou_threshold = 0.5 = 1/2
IouThresholdNum == 1
IouThresholdDen == 2

\* "num_faces = np.random.randint(0, 3)": at most two primary detections
MaxPrimaryFaces == 2

Max(a, b) == IF a >= b THEN a ELSE b
Min(a, b) == IF a <= b THEN a ELSE b

\* boxes (x, y, w, h); empty ones included
Boxes == (0..MaxCoord) \X (0..MaxCoord) \X (0..MaxSide) \X (0..MaxSide)

\* a union that forgets the part counted twice
UnionAreaCountedTwice(box1_area, box2_area, intersection_area) ==
    box1_area + box2_area

\* "union_area = box1_area + box2_area - intersection_area"
UnionArea(box1_area, box2_area, intersection_area) ==
    box1_area + box2_area - intersection_area

\* EnhancedFaceDetector._calculate_iou; the float it returns is kept as the
\* fraction <<numerator, denominator>>, 0.0 as <<0, 1>>
calculate_iou(box1, box2) ==
    LET b1 == <<box1[1], box1[2], box1[1] + box1[3], box1[2] + box1[4]>>
        b2 == <<box2[1], box2[2], box2[1] + box2[3], box2[2] + box2[4]>>
        x_left   == Max(b1[1], b2[1])
        y_top    == Max(b1[2], b2[2])
        x_right  == Min(b1[3], b2[3])
        y_bottom == Min(b1[4], b2[4])
        intersection_area == (x_right - x_left) * (y_bottom - y_top)
        box1_area == (b1[3] - b1[1]) * (b1[4] - b1[2])
        box2_area == (b2[3] - b2[1]) * (b2[4] - b2[2])
        union_area == UnionArea(box1_area, box2_area, intersection_area)
    IN  IF x_right < x_left \/ y_bottom < y_top
        THEN <<0, 1>>
        ELSE IF union_area > 0 THEN <<intersection_area, union_area>> ELSE <<0, 1>>

\* a comparison that lets an IoU equal to the threshold pass
AtMostThreshold(iou) == iou[1] * IouThresholdDen <= IouThresholdNum * iou[2]

\* "self._calculate_iou(best['bbox'], det['bbox']) < iou_threshold"
BelowThreshold(iou) == iou[1] * IouThresholdDen < IouThresholdNum * iou[2]

\* an order in which a later detection of equal confidence comes first
GoesBeforeOnTie(det, other) == det.confidence >= other.confidence

\* sorted(..., key=confidence, reverse=True) is stable: a detection goes before
\* an earlier one only with a strictly higher confidence
GoesBefore(det, other) == det.confidence > other.confidence

\* one detection put into the already sorted ones that preceded it in the input
InsertSorted(sorted, det) ==
    LET k == Cardinality({i \in 1..Len(sorted) : ~GoesBefore(det, sorted[i])})
    IN  SubSeq(sorted, 1, k) \o <<det>> \o SubSeq(sorted, k + 1, Len(sorted))

\* "detections = sorted(detections, key=lambda x: x['confidence'], reverse=True)"
RECURSIVE SortedByConfidence(_)
SortedByConfidence(detections) ==
    IF detections = <<>> THEN <<>>
    ELSE InsertSorted(SortedByConfidence(SubSeq(detections, 1, Len(detections) - 1)),
                      detections[Len(detections)])

\* the "while detections:" loop: the best is popped and kept, and the rest is
\* filtered against it
RECURSIVE Suppress(_)
Suppress(detections) ==
    IF detections = <<>> THEN <<>>
    ELSE LET best == Head(detections)
             Passes(det) == BelowThreshold(calculate_iou(best.bbox, det.bbox))
         IN  <<best>> \o Suppress(SelectSeq(Tail(detections), Passes))

\* EnhancedFaceDetector._non_max_suppression
non_max_suppression(detections) ==
    IF detections = <<>> THEN <<>> ELSE Suppress(SortedByConfidence(detections))

\* the boxes and confidences (in hundredths) the detector is tried with: equal,
\* nested, half-covering, touching, disjoint and empty boxes
NmsBoxes == {<<0, 0, 2, 2>>, <<0, 0, 1, 2>>, <<1, 0, 2, 2>>, <<2, 2, 1, 1>>, <<0, 0, 0, 0>>}
Confidences == {70, 90}
Detections == [bbox : NmsBoxes, confidence : Confidences]
DetectionInputs == UNION {[1..n -> Detections] : n \in 0..MaxNms}

\* _calculate_iou called on two boxes
CalculateIou ==
    /\ ~iou_call.returned
    /\ iou_call' = [iou_call EXCEPT !.iou = calculate_iou(iou_call.box1, iou_call.box2),
                                    !.returned = TRUE]
    /\ UNCHANGED <<use_ensemble, nms_call, detected, handed, lifeCore, startupVars, pipeline, dbVars,
                   galleryVars, callerVars, raceVars, queueVars, trackerVars>>

\* _non_max_suppression called on a list of detections
NonMaxSuppression ==
    /\ ~nms_call.returned
    /\ nms_call' = [nms_call EXCEPT !.kept = non_max_suppression(nms_call.detections),
                                    !.returned = TRUE]
    /\ UNCHANGED <<use_ensemble, iou_call, detected, handed, lifeCore, startupVars, pipeline, dbVars,
                   galleryVars, callerVars, raceVars, queueVars, trackerVars>>

\* the rest of the program at rest, for the specifications of the detector
DetectorRest ==
    /\ db_persons = <<>>
    /\ db_face_embeddings = <<>>
    /\ known_embeddings = <<>>
    /\ known_identities = <<>>
    /\ CallersIdle
    /\ TrackerFresh
    /\ QueueFresh
    /\ app = "engine"
    /\ main_pc = "api"
    /\ running = [c \in Components |-> FALSE]
    /\ camera = "None"
    /\ worker = [w \in Workers |-> "none"]
    /\ queue_len = [q \in Queues |-> 0]
    /\ captured = 0
    /\ starts = 0
    /\ in_flight_at_stop = {}
    /\ setup = NoSetup
    /\ pipeline = PipelineIdle

\* the boxes a detector reports: none of them empty
DetectorBoxes == {box \in NmsBoxes : box[3] > 0 /\ box[4] > 0}

\* the lists of up to n detections with boxes and confidences from the given sets
DetectionListsOf(boxes, confidences, n) ==
    UNION {[1..k -> [bbox : boxes, confidence : confidences]] : k \in 0..n}

\* EnhancedFaceDetector.detect_faces on a loaded primary model: up to two primary
\* detections; with use_ensemble and a secondary model, now and then one more
\* when there are fewer than two, and then _non_max_suppression. Landmarks and
\* source are left out
DetectFaces ==
    /\ "face_detection_primary" \in models
    /\ \E primary \in DetectionListsOf(DetectorBoxes, Confidences, MaxPrimaryFaces),
          secondary \in DetectionListsOf(DetectorBoxes, {70}, 1) :
          detected' =
              IF use_ensemble /\ "face_detection_secondary" \in models
              THEN non_max_suppression(IF Len(primary) < 2
                                       THEN primary \o secondary
                                       ELSE primary)
              ELSE primary
    /\ UNCHANGED <<use_ensemble, iou_call, nms_call, handed, lifeCore, startupVars, pipeline,
                   dbVars, galleryVars, callerVars, raceVars, queueVars, trackerVars>>

\* FaceTrackingSystem._process_frames: the detections of a Hailo result, as
\* _simulate_face_detection listed them with confidence 0.9, go to
\* process_detections as they are
TrackingHandsDetections ==
    /\ \E detections \in DetectionListsOf(DetectorBoxes, {90}, MaxPrimaryFaces) :
          handed' = detections
    /\ UNCHANGED <<use_ensemble, iou_call, nms_call, detected, lifeCore, startupVars, pipeline,
                   dbVars, galleryVars, callerVars, raceVars, queueVars, trackerVars>>

\* an initialized engine, with or without the optional secondary detector and
\* with the ensemble switched on or off; and a tracking system
InitDetect ==
    /\ DetectorRest
    /\ is_initialized = TRUE
    /\ models \in {RequiredModels, RequiredModels \cup {"face_detection_secondary"}}
    /\ initialize_returned = [value |-> "True", missing |-> {}]
    /\ use_ensemble \in BOOLEAN
    /\ iou_call = [box1 |-> <<0, 0, 0, 0>>, box2 |-> <<0, 0, 0, 0>>,
                   iou |-> <<0, 1>>, returned |-> FALSE]
    /\ nms_call = [detections |-> <<>>, kept |-> <<>>, returned |-> FALSE]
    /\ detected = <<>>
    /\ handed = <<>>

NextDetect == DetectFaces \/ TrackingHandsDetections

SpecDetect == InitDetect /\ [][NextDetect]_vars

\* every pair of boxes
InitIou ==
    /\ DetectorRest
    /\ is_initialized = FALSE
    /\ models = {}
    /\ initialize_returned = NotInitialized
    /\ use_ensemble = TRUE
    /\ iou_call \in [box1 : Boxes, box2 : Boxes, iou : {<<0, 1>>}, returned : {FALSE}]
    /\ nms_call = [detections |-> <<>>, kept |-> <<>>, returned |-> FALSE]
    /\ detected = <<>>
    /\ handed = <<>>

SpecIou == InitIou /\ [][CalculateIou]_vars

\* every list of up to MaxNms detections
InitNms ==
    /\ DetectorRest
    /\ is_initialized = FALSE
    /\ models = {}
    /\ initialize_returned = NotInitialized
    /\ use_ensemble = TRUE
    /\ iou_call = [box1 |-> <<0, 0, 0, 0>>, box2 |-> <<0, 0, 0, 0>>,
                   iou |-> <<0, 1>>, returned |-> FALSE]
    /\ nms_call \in [detections : DetectionInputs, kept : {<<>>}, returned : {FALSE}]
    /\ detected = <<>>
    /\ handed = <<>>

SpecNms == InitNms /\ [][NonMaxSuppression]_vars

\* the unit cells a box covers
Cells(box) == {<<i, j>> \in (0..(MaxCoord + MaxSide)) \X (0..(MaxCoord + MaxSide)) :
                  /\ box[1] <= i /\ i < box[1] + box[3]
                  /\ box[2] <= j /\ j < box[2] + box[4]}

IntersectionOf(a, b) == Cardinality(Cells(a) \cap Cells(b))
UnionOf(a, b) == Cardinality(Cells(a) \cup Cells(b))

\* C26: _calculate_iou(A, B) is the area of the intersection over the area of
\* the union, 0 when the boxes share no area or one of them is empty (two equal
\* empty boxes included, where nothing is divided), the same for (B, A), and
\* between 0 and 1.
C26_IouIsIntersectionOverUnion ==
    iou_call.returned =>
        LET a == iou_call.box1
            b == iou_call.box2
            iou == iou_call.iou
        IN  /\ iou[2] > 0
            /\ UnionOf(a, b) > 0 => iou[1] * UnionOf(a, b) = IntersectionOf(a, b) * iou[2]
            /\ (IntersectionOf(a, b) = 0 \/ Cells(a) = {} \/ Cells(b) = {}) => iou[1] = 0
            /\ calculate_iou(b, a)[1] * iou[2] = iou[1] * calculate_iou(b, a)[2]
            /\ 0 <= iou[1] /\ iou[1] <= iou[2]

\* two overlapping boxes of different size have been compared
C26_Witness ==
    /\ iou_call.returned
    /\ iou_call.box1 = <<0, 0, 2, 2>>
    /\ iou_call.box2 = <<1, 1, 2, 1>>
    /\ iou_call.iou = <<1, 5>>

\* the IoU of two boxes, from the cells they cover, is below the threshold
\* (an empty union counts as 0)
RefBelowThreshold(a, b) ==
    \/ UnionOf(a, b) = 0
    \/ IntersectionOf(a, b) * IouThresholdDen < IouThresholdNum * UnionOf(a, b)

\* C21: after _non_max_suppression, the IoU of every two surviving boxes is
\* below the threshold.
C21_SurvivorsBelowThreshold ==
    nms_call.returned =>
        \A i, j \in 1..Len(nms_call.kept) :
            i # j => RefBelowThreshold(nms_call.kept[i].bbox, nms_call.kept[j].bbox)

\* three detections went in, two of them covering each other by a half, and
\* two came out
C21_Witness ==
    /\ nms_call.returned
    /\ Len(nms_call.detections) = 3
    /\ Len(nms_call.kept) = 2
    /\ \E i, j \in 1..3 :
          /\ nms_call.detections[i].bbox = <<0, 0, 2, 2>>
          /\ nms_call.detections[j].bbox = <<0, 0, 1, 2>>

\* detection i is visited before detection j: higher confidence first, equal
\* confidence in input order
VisitedBefore(detections, i, j) ==
    \/ detections[i].confidence > detections[j].confidence
    \/ detections[i].confidence = detections[j].confidence /\ i < j

\* the positions of the input in visiting order
VisitOrder(detections) ==
    CHOOSE f \in [1..Len(detections) -> 1..Len(detections)] :
        \A a, b \in 1..Len(detections) : a < b => VisitedBefore(detections, f[a], f[b])

\* the greedy procedure from position k of the visiting order on: a detection
\* is kept iff its IoU with every detection kept so far is below the threshold
RECURSIVE GreedyFrom(_, _, _, _)
GreedyFrom(detections, order, k, kept) ==
    IF k > Len(detections) THEN kept
    ELSE LET det == detections[order[k]]
         IN  IF \A i \in 1..Len(kept) : RefBelowThreshold(kept[i].bbox, det.bbox)
             THEN GreedyFrom(detections, order, k + 1, Append(kept, det))
             ELSE GreedyFrom(detections, order, k + 1, kept)

Greedy(detections) == GreedyFrom(detections, VisitOrder(detections), 1, <<>>)

\* C25: _non_max_suppression returns what the greedy procedure returns
\* (descending confidence, ties in input order, kept iff below the threshold
\* against everything kept); every detection it returns is one of the input,
\* taken once; the first of the highest confidence is kept; and nothing comes
\* out of nothing.
C25_NmsIsGreedy ==
    nms_call.returned =>
        LET detections == nms_call.detections
            kept == nms_call.kept
        IN  /\ kept = Greedy(detections)
            /\ \E f \in [1..Len(kept) -> 1..Len(detections)] :
                  /\ \A a, b \in 1..Len(kept) : a # b => f[a] # f[b]
                  /\ \A a \in 1..Len(kept) : kept[a] = detections[f[a]]
            /\ detections # <<>> =>
                  /\ kept # <<>>
                  /\ kept[1] = detections[VisitOrder(detections)[1]]
                  /\ \A i \in 1..Len(detections) :
                        detections[i].confidence <= kept[1].confidence
            /\ detections = <<>> => kept = <<>>

\* of two overlapping detections of equal confidence the first of the input
\* survived, and a third, higher one came out ahead of it
C25_Witness ==
    /\ nms_call.returned
    /\ nms_call.detections = << [bbox |-> <<0, 0, 1, 2>>, confidence |-> 70],
                                [bbox |-> <<0, 0, 2, 2>>, confidence |-> 70],
                                [bbox |-> <<2, 2, 1, 1>>, confidence |-> 90] >>
    /\ nms_call.kept = << [bbox |-> <<2, 2, 1, 1>>, confidence |-> 90],
                          [bbox |-> <<0, 0, 1, 2>>, confidence |-> 70] >>

\* the IoU of every two boxes of the list is below the threshold
Deduplicated(detections) ==
    \A i, j \in 1..Len(detections) :
        i # j => RefBelowThreshold(detections[i].bbox, detections[j].bbox)

\* C22: the list detect_faces returns and the list handed to
\* process_detections have been through non-max suppression: in both, the IoU
\* of every two boxes is below 0.5.
C22_EveryListIsDeduplicated ==
    /\ Deduplicated(detected)
    /\ Deduplicated(handed)

\* the time of the last alert raised for unknown_id (0 when there is none)
LastAlertTime(rows, unknown_id) ==
    LET times == {rows[i].time : i \in {k \in 1..Len(rows) : rows[k].unknown_id = unknown_id}}
    IN  IF times = {} THEN 0 ELSE CHOOSE t \in times : \A u \in times : u <= t

\* C24: a call that continues an Unknown track which existed before it, 30 s
\* or more after that track's previous alert, raises an 'unknown_face' alert
\* for the track at the time of the call.
C24_ContinuedUnknownRealerted ==
    [][\A r \in UnknownResults(results') :
          ( /\ calls' # calls
            /\ results'[r].id < next_unknown_id
            /\ now' - LastAlertTime(alerts, results'[r].id) >= AlertCooldown )
          => \E i \in 1..Len(alerts') :
                /\ alerts'[i].unknown_id = results'[r].id
                /\ alerts'[i].time = now'
      ]_vars

\* C28: no component has two of its worker threads alive at a time, over any
\* sequence of start() and stop() calls.
C28_OneWorkerPerComponent ==
    \A c \in {"camera", "hailo", "engine"} :
        Cardinality({w \in Workers : ComponentOf(w) = c /\ Alive(w)}) <= 1

\* C29: the capture thread is never about to call read() on a camera that
\* stop() has released and set to None.
C29_NoReadAfterRelease ==
    worker[CaptureWorker] = "read" => camera = "open"

----------------------------------------------------------------------------
(* A frame's way from the camera to process_detections. Queues are followed
   by their contents; frames are numbered in the order of capture. *)

nonPipelineVars == <<lifeCore, startupVars, detectorVars, dbVars, galleryVars,
                     callerVars, raceVars, queueVars, trackerVars>>

\* the queue a thread pushes to, and where the thread goes after the push
PushesTo(t) ==
    CASE t = "capture"  -> "camera.frame_queue"
      [] t = "tracking" -> "hailo.frame_queue"
      [] t = "hailo"    -> "hailo.result_queue"

AfterPush(t) ==
    CASE t = "capture"  -> "read"
      [] t = "tracking" -> "get_result"
      [] t = "hailo"    -> "get"

\* the queue a thread takes its frames from
TakesFrom(t) ==
    CASE t = "tracking" -> "camera.frame_queue"
      [] t = "hailo"    -> "hailo.frame_queue"

\* "ret, frame = self.camera.read()" with ret True: the next frame
PipelineRead ==
    /\ pipeline.pc["capture"] = "read"
    /\ pipeline.seq <= MaxPipelineFrames
    /\ pipeline' = [pipeline EXCEPT !.hold["capture"] = pipeline.seq,
                                    !.seq = pipeline.seq + 1,
                                    !.pc["capture"] = "full"]
    /\ UNCHANGED nonPipelineVars

\* "frame = self.camera.get_frame()" in the tracking thread and
\* "frame = self.frame_queue.get(timeout=0.1)" in the Hailo thread, with a
\* frame queued (with none, the thread comes back to the same call)
PipelineGet(t) ==
    /\ t \in {"tracking", "hailo"}
    /\ pipeline.pc[t] = (IF t = "tracking" THEN "get_frame" ELSE "get")
    /\ pipeline.queue[TakesFrom(t)] # <<>>
    /\ pipeline' = [pipeline EXCEPT
                      !.hold[t] = QueueGet(pipeline.queue[TakesFrom(t)]).item,
                      !.queue[TakesFrom(t)] = QueueGet(pipeline.queue[TakesFrom(t)]).rest,
                      !.pc[t] = "full"]
    /\ UNCHANGED nonPipelineVars

\* "if self.frame_queue.full():" / "if self.result_queue.full():"
PipelineFull(t) ==
    /\ pipeline.pc[t] = "full"
    /\ pipeline' = [pipeline EXCEPT
                      !.pc[t] = IF Len(pipeline.queue[PushesTo(t)]) >= Maxsize(PushesTo(t))
                                THEN "get_nowait" ELSE "put_nowait"]
    /\ UNCHANGED nonPipelineVars

\* "try: ....get_nowait() except queue.Empty: pass"
PipelineEvict(t) ==
    /\ pipeline.pc[t] = "get_nowait"
    /\ pipeline' = [pipeline EXCEPT
                      !.queue[PushesTo(t)] = GetNowait(pipeline.queue[PushesTo(t)]),
                      !.pc[t] = "put_nowait"]
    /\ UNCHANGED nonPipelineVars

\* "try: ....put_nowait(...) except queue.Full: pass"
PipelinePut(t) ==
    /\ pipeline.pc[t] = "put_nowait"
    /\ pipeline' = [pipeline EXCEPT
                      !.queue[PushesTo(t)] =
                          IF Len(pipeline.queue[PushesTo(t)]) >= Maxsize(PushesTo(t))
                          THEN pipeline.queue[PushesTo(t)]
                          ELSE Append(pipeline.queue[PushesTo(t)], pipeline.hold[t]),
                      !.hold[t] = 0,
                      !.pc[t] = AfterPush(t)]
    /\ UNCHANGED nonPipelineVars

\* "hailo_result = self.hailo_processor.get_result()": None after the timeout,
\* or the oldest result, whose frame goes to process_detections
PipelineGetResult ==
    /\ pipeline.pc["tracking"] = "get_result"
    /\ IF pipeline.queue["hailo.result_queue"] = <<>>
       THEN pipeline' = [pipeline EXCEPT !.pc["tracking"] = "get_frame"]
       ELSE pipeline' = [pipeline EXCEPT
                           !.handled = Append(pipeline.handled,
                                              QueueGet(pipeline.queue["hailo.result_queue"]).item),
                           !.queue["hailo.result_queue"] =
                               QueueGet(pipeline.queue["hailo.result_queue"]).rest,
                           !.pc["tracking"] = "get_frame"]
    /\ UNCHANGED nonPipelineVars

\* a started tracking system in its camera mode
InitPipeline ==
    /\ db_persons = <<>>
    /\ db_face_embeddings = <<>>
    /\ known_embeddings = <<>>
    /\ known_identities = <<>>
    /\ CallersIdle
    /\ TrackerFresh
    /\ QueueFresh
    /\ LifeIdle

NextPipeline ==
    \/ PipelineRead
    \/ \E t \in PipelineThreads : PipelineGet(t)
    \/ \E t \in PipelineThreads : PipelineFull(t)
    \/ \E t \in PipelineThreads : PipelineEvict(t)
    \/ \E t \in PipelineThreads : PipelinePut(t)
    \/ PipelineGetResult

SpecPipeline == InitPipeline /\ [][NextPipeline]_vars

\* the frames of a sequence are in the order of their capture
InCaptureOrder(frames) ==
    \A i, j \in 1..Len(frames) : i < j => frames[i] < frames[j]

\* C23: frames reach process_detections in the order of their capture: every
\* queue holds its frames in that order, a frame taken from a queue was
\* captured before every frame left in it, and the frames handled so far are
\* in capture order, also when a full queue has dropped its oldest frame.
C23_HandledInCaptureOrder ==
    /\ InCaptureOrder(pipeline.handled)
    /\ \A q \in PipelineQueues : InCaptureOrder(pipeline.queue[q])
    /\ \A t \in {"tracking", "hailo"} :
          pipeline.hold[t] # 0 =>
              \A i \in 1..Len(pipeline.queue[TakesFrom(t)]) :
                  pipeline.hold[t] < pipeline.queue[TakesFrom(t)][i]
    /\ \A i \in 1..Len(pipeline.handled) :
          \A j \in 1..Len(pipeline.queue["hailo.result_queue"]) :
              pipeline.handled[i] < pipeline.queue["hailo.result_queue"][j]

\* the Hailo frame queue was full and dropped frame 1, and frames 2 and 3 were
\* handled after it, in that order
C23_Witness ==
    /\ Len(pipeline.handled) >= 2
    /\ pipeline.handled[1] = 2
    /\ pipeline.handled[2] = 3

====
